---- MODULE Spec2Model ----
(***************************************************************************)
(* deej: slider-to-session routing engine.                                 *)
(*                                                                         *)
(* Part I models the serial line handler and the slider state tracker of   *)
(* pkg/deej/serial.go (handleLine, processSliderData).  Part II models the *)
(* session map of pkg/deej/session_map.go (refreshSessions, clear, add,    *)
(* get, resolveTarget, sessionMapped, handleSliderMoveEvent, release).     *)
(* Part III models the serial link of pkg/deej/serial.go (Start, the       *)
(* reader goroutine, close, the reconnection loop, Stop).  Part IV models  *)
(* sliderMapFromConfigs of pkg/deej/slider_map.go, Part V the mutex of the *)
(* slider data and the handleLine goroutines that contend for it, and      *)
(* Part VI the listener of configuration reloads of pkg/deej/serial.go.    *)
(*                                                                         *)
(* Volume scalars are float32 values with two points of precision; they    *)
(* are kept here as integers counted in hundredths (0.50 is 50, the unset  *)
(* sentinel -1.0 is -100).  A serial line is a sequence of tokens; a       *)
(* target string or session key is a sequence of one-character strings.    *)
(***************************************************************************)
EXTENDS Integers, Sequences, FiniteSets, TLC

VARIABLES
    \* ---- SerialIO (serial.go:25-40) and the configuration it reads
    lastKnownNumSliders,
    currentSliderPercentValues,
    sliderMoveConsumers,
    InvertSliders,
    NoiseReductionLevel,
    resetPending,
    \* the health indicator of the tray (tray.go:23-26, 66-83)
    trayState,
    \* observation of the last handled line
    moveEvents,
    last,
    \* ---- sessionMap (session_map.go:15-26), the configuration and the backend
    m,
    unmappedSessions,
    sinceRefresh,
    SliderMapping,
    handles,
    finderReleased,
    connected,
    crashed,
    \* ---- the goroutines that call into the session map
    pc,
    pending,
    enumerated,
    disturbed,
    \* ---- the slider-move handler and the SetVolume goroutines it starts
    handler,
    tasks,
    found,
    spawned,
    failed,
    \* ---- the serial link (serial.go:29-31) and the goroutines around it
    reconnecting,
    reader,
    starter,
    stopCall,
    notified,
    attempt,
    \* ---- sliderMapFromConfigs (slider_map.go:21-82): its two arguments and
    \* the map it returns
    userMapping,
    internalMapping,
    resultMap,
    \* ---- the mutex of the slider data (serial.go:37): the task that holds it
    sliderDataMutex,
    \* ---- the lines read from the link in the order they were read, each with
    \* the state of the handleLine goroutine started for it (serial.go:298-301)
    lineTasks

trackerVars == <<lastKnownNumSliders, currentSliderPercentValues,
                 sliderMoveConsumers, InvertSliders, NoiseReductionLevel,
                 resetPending, trayState, moveEvents, last>>

\* the tracker variables but the tray icon
sliderVars == <<lastKnownNumSliders, currentSliderPercentValues,
                sliderMoveConsumers, InvertSliders, NoiseReductionLevel,
                resetPending, moveEvents, last>>

volumeVars == <<handler, tasks, found, spawned, failed>>

linkVars == <<reconnecting, reader, starter, stopCall, notified, attempt>>

configVars == <<userMapping, internalMapping, resultMap>>

lockVars == <<sliderDataMutex, lineTasks>>

\* the session map variables but the link state
mapVars == <<m, unmappedSessions, sinceRefresh, SliderMapping, handles,
             finderReleased, crashed, pc, pending, enumerated, disturbed,
             volumeVars, configVars, lockVars>>

\* the same but the flag of a process that has ended in a panic
sessionRest == <<m, unmappedSessions, sinceRefresh, SliderMapping, handles,
                 finderReleased, pc, pending, enumerated, disturbed, volumeVars,
                 configVars, lockVars>>

sessionVars == <<m, unmappedSessions, sinceRefresh, SliderMapping, handles,
                 finderReleased, connected, crashed, pc, pending, enumerated, disturbed,
                 volumeVars, linkVars, configVars, lockVars>>

-----------------------------------------------------------------------------
\* Bounds of the model

\* largest number of readings in one slider frame
MaxSliders == 2

\* a new line is handled only while every subscriber queue holds at most
\* this many undelivered events
MaxBacklog == 0

\* largest number of reconnection loops alive at one time
MaxLoops == 2

\* largest number of lines read from the link whose goroutines are followed
MaxDispatched == 2

-----------------------------------------------------------------------------
\* Part I.  Serial lines

\* capacity of a subscriber channel
ChanCap == 100

\* the largest raw reading of a well-formed frame
MaxReading == 1023

Word(s) == [t |-> "word", s |-> s, n |-> 0]
Num(n) == [t |-> "num", s |-> "", n |-> n]

COLON == Word(":")
PIPE == Word("|")
CR == Word("\r")
LF == Word("\n")

\* raw readings a device line may carry: two in-range values that normalise
\* to 0.50 and 0.52, and the torn reading of the comment at serial.go:525,
\* which the model lets appear as the first field of a line
InRangeReadings == {512, 533}
Readings == InRangeReadings \cup {4558}

RECURSIVE SeqsUpTo(_, _)
SeqsUpTo(S, n) ==
    IF n = 0 THEN {<<>>}
    ELSE LET shorter == SeqsUpTo(S, n - 1)
         IN  shorter \cup {Append(q, x) : q \in {r \in shorter : Len(r) = n - 1}, x \in S}

Frames ==
    {<<first>> \o rest : first \in Readings, rest \in SeqsUpTo(InRangeReadings, MaxSliders - 1)}

RECURSIVE JoinPipe(_)
JoinPipe(f) ==
    IF Len(f) = 0 THEN <<>>
    ELSE IF Len(f) = 1 THEN <<Num(f[1])>>
    ELSE <<Num(f[1]), PIPE>> \o JoinPipe(Tail(f))

\* "v0|v1|...|vN-1\r\n", as Serial.println sends it
LegacyLine(f) == JoinPipe(f) \o <<CR, LF>>

\* "deej:v2.0:sliders:v0|v1|...|vN-1\r\n"
SlidersLine(f) ==
    <<Word("deej"), COLON, Word("v2.0"), COLON, Word("sliders"), COLON>>
        \o JoinPipe(f) \o <<CR, LF>>

OtherLines ==
    { <<Word("heartbeat"), CR, LF>>,
      <<Word("status"), COLON, Word("ok"), CR, LF>>,
      <<Word("deej"), COLON, Word("v2.0"), COLON, Word("startup"), COLON, Word("5sliders"), CR, LF>>,
      <<Word("deej"), COLON, Word("v2.0"), COLON, Word("response"), COLON, Word("reboot_ack"), CR, LF>>,
      <<Word("deej"), COLON, Word("v2.0"), COLON, Word("sliders"), CR, LF>>,
      <<Word("deej"), COLON, Word("v2.0"), CR, LF>> }

IsSpace(tok) == tok \in {CR, LF, Word(" ")}

\* strings.TrimSpace
RECURSIVE TrimLeft(_)
TrimLeft(line) ==
    IF Len(line) > 0 /\ IsSpace(line[1]) THEN TrimLeft(Tail(line)) ELSE line

RECURSIVE TrimRight(_)
TrimRight(line) ==
    IF Len(line) > 0 /\ IsSpace(line[Len(line)])
    THEN TrimRight(SubSeq(line, 1, Len(line) - 1))
    ELSE line

TrimSpace(line) == TrimRight(TrimLeft(line))

\* strings.HasPrefix
HasPrefix(s, prefix) ==
    /\ Len(s) >= Len(prefix)
    /\ SubSeq(s, 1, Len(prefix)) = prefix

\* strings.Split: the pieces between the separators, empty pieces included
RECURSIVE SplitAcc(_, _, _)
SplitAcc(s, sep, cur) ==
    IF Len(s) = 0 THEN <<cur>>
    ELSE IF s[1] = sep THEN <<cur>> \o SplitAcc(Tail(s), sep, <<>>)
    ELSE SplitAcc(Tail(s), sep, Append(cur, s[1]))

Split(s, sep) == SplitAcc(s, sep, <<>>)

\* strconv.Atoi with its error dropped: anything but one number is 0
Atoi(field) ==
    IF Len(field) = 1 /\ field[1].t = "num" THEN field[1].n ELSE 0

\* \d{1,4}
IsDigits1to4(tok) == tok.t = "num" /\ tok.n >= 0 /\ tok.n <= 9999

\* ^\d{1,4}(\|\d{1,4})*  as a prefix of s; the rest of s after the longest match
RECURSIVE AfterPipeGroups(_)
AfterPipeGroups(s) ==
    IF Len(s) >= 2 /\ s[1] = PIPE /\ IsDigits1to4(s[2])
    THEN AfterPipeGroups(SubSeq(s, 3, Len(s)))
    ELSE s

\* expectedLinePattern: ^\d{1,4}(\|\d{1,4})*\r\n$
expectedLinePattern(line) ==
    /\ Len(line) >= 1
    /\ IsDigits1to4(line[1])
    /\ AfterPipeGroups(Tail(line)) = <<CR, LF>>

-----------------------------------------------------------------------------
\* Slider state tracker

Unset == -100

NoiseLevels == {"low", "default", "high"}

\* util.NormalizeScalar(float32(number) / 1023.0), in hundredths:
\* two points of precision, readings below 0.01 land on 0, 1023 lands on 1.00
NormalizeScalar(number) == (number * 100) \div MaxReading

\* the noise threshold of each sensitivity level, in thousandths
NoiseThreshold(level) ==
    CASE level = "low" -> 15
      [] level = "high" -> 35
      [] OTHER -> 25

\* util.SignificantlyDifferent(old, new, noiseReductionLevel)
SignificantlyDifferent(old, new, level) ==
    LET d == IF old >= new THEN old - new ELSE new - old
    IN  d * 10 > NoiseThreshold(level)

Event(id, value) == [SliderID |-> id, PercentValue |-> value]

\* the invert setting is not looked at
ScalarNeverInverted(number, invert) == NormalizeScalar(number)

\* the value of one reading after normalisation and inversion (532-541)
Scalar(number, invert) ==
    IF invert THEN 100 - NormalizeScalar(number) ELSE NormalizeScalar(number)

\* the sentinel test is inverted: every slot already set counts as moved
MovesWhenSet(values, idx, scalar, level) ==
    \/ values[idx] # Unset
    \/ SignificantlyDifferent(values[idx], scalar, level)

\* every reading counts as a move
MovesAlways(values, idx, scalar, level) == TRUE

\* line 546-547: does slot idx (1-based) of values change on this reading?
Moves(values, idx, scalar, level) ==
    \/ values[idx] = Unset
    \/ SignificantlyDifferent(values[idx], scalar, level)

\* the slice is resized but the slots it already had keep their values
ResyncedValuesKeepOld(numSliders, known, values) ==
    IF numSliders # known
    THEN [i \in 1..numSliders |-> IF i <= Len(values) THEN values[i] ELSE Unset]
    ELSE values

\* lines 506-515: the state the loop starts from
ResyncedValues(numSliders, known, values) ==
    IF numSliders # known THEN [i \in 1..numSliders |-> Unset] ELSE values

\* the event always carries slider 0
MoveEventFirstSlider(id, value) == Event(0, value)

\* lines 552-555
MoveEvent(id, value) == Event(id, value)

\* the torn-read check looks for the first field at index 0 of a 1-based loop
MalformedOffByOne(idx, number) == idx = 0 /\ number > MaxReading

\* line 527: the first field is checked for a torn read (idx is 1-based here)
Malformed(idx, number) == idx = 1 /\ number > MaxReading

\* lines 520-561: the loop over the fields, from field idx on.
\* Result: the values, the events so far, and whether the frame was discarded
RECURSIVE SliderLoop(_, _, _, _, _, _)
SliderLoop(fields, idx, values, events, invert, level) ==
    IF idx > Len(fields) THEN [values |-> values, events |-> events, malformed |-> FALSE]
    ELSE LET number == Atoi(fields[idx])
             scalar == Scalar(number, invert)
         IN  IF Malformed(idx, number)
             THEN [values |-> values, events |-> events, malformed |-> TRUE]
             ELSE IF Moves(values, idx, scalar, level)
                  THEN SliderLoop(fields, idx + 1, [values EXCEPT ![idx] = scalar],
                                  Append(events, MoveEvent(idx - 1, scalar)), invert, level)
                  ELSE SliderLoop(fields, idx + 1, values, events, invert, level)

\* the send has no default branch: every event is put on the channel
RECURSIVE SendAllNoDefault(_, _)
SendAllNoDefault(ch, events) ==
    IF Len(events) = 0 THEN ch
    ELSE SendAllNoDefault(Append(ch, events[1]), Tail(events))

\* lines 571-584: non-blocking send of every event to one consumer channel
RECURSIVE SendAll(_, _)
SendAll(ch, events) ==
    IF Len(events) = 0 THEN ch
    ELSE SendAll(IF Len(ch) < ChanCap THEN Append(ch, events[1]) ELSE ch, Tail(events))

\* lines 563-584
Deliver(consumers, events, malformed) ==
    IF malformed \/ Len(events) = 0 THEN consumers
    ELSE [c \in DOMAIN consumers |-> SendAll(consumers[c], events)]

\* what the last handled line was: the operation it ended in, the kind of line
\* the device sent, the readings it carried and the first of them
Observation(op, kind, frame) ==
    [op |-> op, kind |-> kind, first |-> IF Len(frame) > 0 THEN frame[1] ELSE 0,
     frame |-> frame]

\* serial.go:496-591, under sliderDataMutex
processSliderData(sliderData, kind) ==
    LET splitLine == Split(sliderData, PIPE)
        numSliders == Len(splitLine)
        start == ResyncedValues(numSliders, lastKnownNumSliders, currentSliderPercentValues)
        r == SliderLoop(splitLine, 1, start, <<>>, InvertSliders, NoiseReductionLevel)
        frame == [i \in 1..numSliders |-> Atoi(splitLine[i])]
    IN  /\ lastKnownNumSliders' = numSliders
        /\ currentSliderPercentValues' = r.values
        /\ moveEvents' = IF r.malformed THEN <<>> ELSE r.events
        /\ sliderMoveConsumers' = Deliver(sliderMoveConsumers, r.events, r.malformed)
        /\ last' = Observation(IF r.malformed THEN "malformed" ELSE "frame", kind, frame)
        /\ UNCHANGED <<InvertSliders, NoiseReductionLevel, resetPending, trayState>>

\* a line that reaches no slider processing; tray is the icon the handler
\* sets on the way, "keep" when it sets none
Ignored(kind, frame, tray) ==
    /\ trayState' = IF tray = "keep" THEN trayState ELSE tray
    /\ moveEvents' = <<>>
    /\ last' = Observation("ignored", kind, frame)
    /\ UNCHANGED <<lastKnownNumSliders, currentSliderPercentValues, sliderMoveConsumers,
                   InvertSliders, NoiseReductionLevel, resetPending>>

\* strings.TrimPrefix on a line
TrimLinePrefix(line, prefix) ==
    IF HasPrefix(line, prefix) THEN SubSeq(line, Len(prefix) + 1, Len(line)) ELSE line

\* serial.go:474-487: the icon a status line sets
StatusIcon(line) ==
    LET status == TrimSpace(TrimLinePrefix(line, <<Word("status"), COLON>>))
    IN  IF status \in {<<Word("ok")>>, <<Word("warning")>>} THEN "normal" ELSE "error"

\* serial.go:433-494: where a raw line ends up.  to = "sliders" hands data to
\* processSliderData, to = "drop" returns without touching the tracker; tray
\* is the icon set on the way
Route(raw) ==
    LET line == TrimSpace(raw)
        parts == Split(line, COLON)
        drop == [to |-> "drop", data |-> <<>>, tray |-> "keep"]
    IN  IF HasPrefix(line, <<Word("deej"), COLON>>) /\ Len(parts) < 3
        THEN drop
        ELSE IF HasPrefix(line, <<Word("deej"), COLON>>) /\ parts[3] = <<Word("startup")>>
        THEN [drop EXCEPT !.tray = "normal"]
        ELSE IF HasPrefix(line, <<Word("deej"), COLON>>) /\ parts[3] = <<Word("response")>>
        THEN drop
        ELSE IF HasPrefix(line, <<Word("deej"), COLON>>) /\ parts[3] = <<Word("sliders")>>
        THEN IF Len(parts) >= 4
             THEN [to |-> "sliders", data |-> parts[4], tray |-> "keep"]
             ELSE drop
        ELSE IF HasPrefix(line, <<Word("status"), COLON>>)
        THEN [drop EXCEPT !.tray = StatusIcon(line)]
        ELSE IF expectedLinePattern(line)
        THEN [to |-> "sliders", data |-> line, tray |-> "keep"]
        ELSE drop

\* the device lines of the model, each with the kind of line the device meant
\* to send and the readings it carries
DeviceLines ==
    {[kind |-> "legacy", frame |-> f, raw |-> LegacyLine(f)] : f \in Frames}
        \cup {[kind |-> "sliders", frame |-> f, raw |-> SlidersLine(f)] : f \in Frames}
        \cup {[kind |-> "other", frame |-> <<>>, raw |-> l] : l \in OtherLines}

\* "deej:v2.0:sliders:<payload>\r\n" for any payload
SlidersMessage(payload) ==
    <<Word("deej"), COLON, Word("v2.0"), COLON, Word("sliders"), COLON>>
        \o payload \o <<CR, LF>>

\* the readings of the scenario frame "512|1023|0"
ScenarioFrame == <<512, 1023, 0>>

\* a frame whose second reading is torn
TornTailFrame == <<512, 4558>>

\* one line of every kind of the protocol (firmware lines 48-57, 102-104,
\* 144-146, 190-200), a status the handler does not know, and sliders
\* messages whose payload is empty, is text, or carries a torn reading
ProtocolLines ==
    { [kind |-> "heartbeat", frame |-> <<>>, raw |-> <<Word("heartbeat"), CR, LF>>],
      [kind |-> "status-ok", frame |-> <<>>,
       raw |-> <<Word("status"), COLON, Word("ok"), CR, LF>>],
      [kind |-> "status-error", frame |-> <<>>,
       raw |-> <<Word("status"), COLON, Word("error"), CR, LF>>],
      [kind |-> "startup", frame |-> <<>>,
       raw |-> <<Word("deej"), COLON, Word("v2.0"), COLON, Word("startup"), COLON,
                 Word("5sliders"), CR, LF>>],
      [kind |-> "empty", frame |-> <<>>, raw |-> SlidersMessage(<<>>)],
      [kind |-> "text", frame |-> <<>>, raw |-> SlidersMessage(<<Word("abc")>>)],
      [kind |-> "torn-head", frame |-> <<4558, 512>>, raw |-> SlidersLine(<<4558, 512>>)],
      [kind |-> "torn-tail", frame |-> TornTailFrame, raw |-> SlidersLine(TornTailFrame)],
      [kind |-> "scenario", frame |-> ScenarioFrame, raw |-> SlidersLine(ScenarioFrame)],
      [kind |-> "pair", frame |-> <<512, 533>>, raw |-> SlidersLine(<<512, 533>>)] }

RouteOf == [l \in DeviceLines \cup ProtocolLines |-> Route(l.raw)]

handleLine(l) ==
    IF RouteOf[l].to = "sliders"
    THEN processSliderData(RouteOf[l].data, l.kind)
    ELSE Ignored(l.kind, l.frame, RouteOf[l].tray)

BacklogOk == \A c \in DOMAIN sliderMoveConsumers : Len(sliderMoveConsumers[c]) <= MaxBacklog

\* one line read from the link and handled (serial.go:298-301)
HandleLine ==
    /\ \E l \in DeviceLines :
           /\ BacklogOk
           /\ handleLine(l)
    /\ UNCHANGED sessionVars

\* one line of the protocol read from the link and handled (serial.go:298-301)
HandleProtocolLine ==
    /\ \E l \in ProtocolLines :
           /\ BacklogOk
           /\ handleLine(l)
    /\ UNCHANGED sessionVars

\* the two frames a device alternates between in a burst
BurstLines == {l \in ProtocolLines : l.kind \in {"pair", "scenario"}}

\* one line of a burst handled, however many events the subscribers have
\* left unread (serial.go:298-301)
HandleBurstLine ==
    /\ \E l \in BurstLines : handleLine(l)
    /\ UNCHANGED sessionVars

\* the subscriber takes the event it was sent last
ReceiveNewest ==
    /\ \E c \in DOMAIN sliderMoveConsumers :
           /\ Len(sliderMoveConsumers[c]) > 0
           /\ sliderMoveConsumers' =
                  [sliderMoveConsumers EXCEPT ![c] = SubSeq(@, 1, Len(@) - 1)]
           /\ UNCHANGED <<lastKnownNumSliders, currentSliderPercentValues, InvertSliders,
                          NoiseReductionLevel, resetPending, trayState, moveEvents, last>>
    /\ UNCHANGED sessionVars

\* a subscriber takes the next event off its channel (session_map.go:131)
Receive ==
    /\ \E c \in DOMAIN sliderMoveConsumers :
           /\ Len(sliderMoveConsumers[c]) > 0
           /\ sliderMoveConsumers' = [sliderMoveConsumers EXCEPT ![c] = Tail(@)]
           /\ UNCHANGED <<lastKnownNumSliders, currentSliderPercentValues, InvertSliders,
                          NoiseReductionLevel, resetPending, trayState, moveEvents, last>>
    /\ UNCHANGED sessionVars

\* a configuration reload as the serial handler sees it (serial.go:355-364):
\* new settings are in place and the delayed slider-count reset is scheduled
SerialConfigReload ==
    /\ \E inv \in BOOLEAN, lvl \in NoiseLevels :
           /\ InvertSliders' = inv
           /\ NoiseReductionLevel' = lvl
           /\ resetPending' = TRUE
           /\ last' = Observation("reload", "none", <<>>)
           /\ UNCHANGED <<lastKnownNumSliders, currentSliderPercentValues,
                          sliderMoveConsumers, trayState, moveEvents>>
    /\ UNCHANGED sessionVars

\* the delayed reset fires (serial.go:361-364)
ResetSliderCount ==
    /\ resetPending
    /\ resetPending' = FALSE
    /\ lastKnownNumSliders' = 0
    /\ last' = Observation("reset", "none", <<>>)
    /\ UNCHANGED <<currentSliderPercentValues, sliderMoveConsumers, InvertSliders,
                   NoiseReductionLevel, trayState, moveEvents>>
    /\ UNCHANGED sessionVars

\* a subscriber that has fallen behind: it takes an event only once its
\* channel is full
ReceiveLate ==
    /\ \E c \in DOMAIN sliderMoveConsumers : Len(sliderMoveConsumers[c]) = ChanCap
    /\ Receive

TrackerInit ==
    /\ lastKnownNumSliders = 0
    /\ currentSliderPercentValues = <<>>
    /\ sliderMoveConsumers = << <<>> >>
    /\ InvertSliders = FALSE
    /\ NoiseReductionLevel = "default"
    /\ resetPending = FALSE
    /\ trayState = "normal"
    /\ moveEvents = <<>>
    /\ last = Observation("none", "none", <<>>)

TrackerNext ==
    \/ HandleLine
    \/ Receive
    \/ SerialConfigReload
    \/ ResetSliderCount

BurstNext ==
    \/ HandleBurstLine
    \/ ReceiveLate

DecoderNext ==
    \/ HandleProtocolLine
    \/ Receive
    \/ SerialConfigReload
    \/ ResetSliderCount


-----------------------------------------------------------------------------
\* Part III.  The serial link (serial.go:234-338, 366-431; tray.go:320-381)

\* attempts of the initial connection before it turns into a loop (tray.go:323)
maxRetries == 5

\* the goroutines that call Start(): Renewer is the configuration listener of
\* the serial handler (serial.go:366-381), 0 is the initial connection
\* goroutine of Deej.run (tray.go:321-380), the others are reconnection loops
\* started by a reader (serial.go:310-322)
Renewer == -1
Loops == 1..MaxLoops
Starters == Renewer..MaxLoops

\* the test of the flag is the wrong way round
SpawnsLoopWhenFlagged(flag) == flag

\* serial.go:308: the reader starts a reconnection loop unless one is flagged
SpawnsLoop(flag) == ~flag

\* tray.go:336-358: the initial attempts tell a port that does not exist or is
\* busy from the other errors; no other caller of Start() looks at the error
Fatal(p, kind) == p = 0 /\ attempt <= maxRetries /\ kind = "misconfigured"

\* what the caller p of a Start() that returned the error kind does next: the
\* initial attempts notify the user of a fatal error and signal a stop, or
\* count the attempt (tray.go:326-365); the loops sleep and call again
\* (tray.go:370-379, serial.go:312-321), "retrying" when the error was a port
\* that does not exist or is busy; the listener logs it (serial.go:376)
Failed(p, kind) ==
    /\ notified' = (notified \/ Fatal(p, kind))
    /\ starter' = [starter EXCEPT ![p] =
                      IF p = Renewer \/ Fatal(p, kind) THEN "off"
                      ELSE IF kind = "misconfigured" THEN "retrying"
                      ELSE "sleep"]
    /\ attempt' = IF p = 0 /\ attempt <= maxRetries
                  THEN (IF Fatal(p, kind) THEN 1 ELSE attempt + 1)
                  ELSE attempt

\* serial.go:234-239: Start() is called and tests the connected flag
Start(p) ==
    /\ ~crashed
    /\ starter[p] \in {"sleep", "retrying"}
    /\ IF connected
       THEN Failed(p, "active")
       ELSE /\ starter' = [starter EXCEPT ![p] = "opening"]
            /\ UNCHANGED <<notified, attempt>>
    /\ UNCHANGED <<connected, reconnecting, reader, stopCall, trayState>>
    /\ UNCHANGED <<sliderVars, mapVars>>

\* serial.go:241-287: the port is looked for and opened, up to the sleep of
\* line 291, with one of the outcomes; a failed auto-detect shows the error
\* icon
OpenWith(p, outcomes) ==
    /\ ~crashed
    /\ starter[p] = "opening"
    /\ \E outcome \in outcomes :
          IF outcome = "opened"
          THEN /\ connected' = TRUE
               /\ reconnecting' = FALSE
               /\ trayState' = "normal"
               /\ starter' = [starter EXCEPT ![p] = "opened"]
               /\ UNCHANGED <<notified, attempt>>
          ELSE /\ Failed(p, outcome)
               /\ trayState' = IF outcome = "undetected" THEN "error" ELSE trayState
               /\ UNCHANGED <<connected, reconnecting>>
    /\ UNCHANGED <<reader, stopCall>>
    /\ UNCHANGED <<sliderVars, mapVars>>

\* the port opens, or it does not for one of the reasons Start() knows
Open(p) == OpenWith(p, {"opened", "undetected", "unopened", "misconfigured"})

\* the port opens, or a well-configured port is not there for the moment
OpenPlain(p) == OpenWith(p, {"opened", "unopened"})

\* serial.go:291-327: Start() wakes, starts the reader goroutine and returns
\* nil; a reconnection loop of the reader has its last steps to take, the
\* other callers are done (tray.go:329-331, 373-375; serial.go:379)
StartReader(p) ==
    /\ ~crashed
    /\ starter[p] = "opened"
    /\ reader[p] = "none"
    /\ reader' = [reader EXCEPT ![p] = "reading"]
    /\ starter' = [starter EXCEPT ![p] = IF p \in Loops THEN "won" ELSE "off"]
    /\ attempt' = IF p = 0 THEN 1 ELSE attempt
    /\ UNCHANGED <<connected, reconnecting, trayState, stopCall, notified>>
    /\ UNCHANGED <<sliderVars, mapVars>>

\* serial.go:314-319: the loop whose Start() succeeded sets the icon, clears
\* the flag and ends
RetryDone(l) ==
    /\ ~crashed
    /\ starter[l] = "won"
    /\ starter' = [starter EXCEPT ![l] = "off"]
    /\ trayState' = "normal"
    /\ reconnecting' = FALSE
    /\ UNCHANGED <<connected, reader, stopCall, notified, attempt>>
    /\ UNCHANGED <<sliderVars, mapVars>>

\* serial.go:404-418: a read fails; readLine shows the error icon and closes
\* the line channel
ReadFails(r) ==
    /\ ~crashed
    /\ reader[r] = "reading"
    /\ reader' = [reader EXCEPT ![r] = "failed"]
    /\ trayState' = "error"
    /\ UNCHANGED <<connected, reconnecting, starter, stopCall, notified, attempt>>
    /\ UNCHANGED <<sliderVars, mapVars>>

\* serial.go:303-305, 386-398: the reader leaves its loop and closes the
\* link.  sio.conn is nil once a reader has closed it: a second reader that
\* closes it calls Close() on nil and the process ends
ReaderCloses(r) ==
    /\ ~crashed
    /\ reader[r] = "failed"
    /\ IF connected
       THEN /\ reader' = [reader EXCEPT ![r] = "closed"]
            /\ connected' = FALSE
            /\ trayState' = "error"
            /\ UNCHANGED crashed
       ELSE /\ crashed' = TRUE
            /\ UNCHANGED <<reader, connected, trayState>>
    /\ UNCHANGED <<reconnecting, starter, stopCall, notified, attempt>>
    /\ UNCHANGED <<sliderVars, sessionRest>>

\* serial.go:307-324: the reader starts a reconnection loop, or not, and ends
ReaderSpawns(r) ==
    /\ ~crashed
    /\ reader[r] = "closed"
    /\ reader' = [reader EXCEPT ![r] = "none"]
    /\ IF SpawnsLoop(reconnecting)
       THEN /\ \E l \in Loops : starter[l] = "off"
            /\ LET l == CHOOSE i \in Loops :
                           /\ starter[i] = "off"
                           /\ \A j \in Loops : starter[j] = "off" => i <= j
               IN  starter' = [starter EXCEPT ![l] = "sleep"]
            /\ reconnecting' = TRUE
       ELSE UNCHANGED <<starter, reconnecting>>
    /\ UNCHANGED <<connected, trayState, stopCall, notified, attempt>>
    /\ UNCHANGED <<sliderVars, mapVars>>

\* serial.go:331-338: Stop() sends on stopChannel while connected.  The
\* channel has no buffer (serial.go:60) and nothing receives from it, so the
\* caller stays in the send
Stop ==
    /\ ~crashed
    /\ stopCall = "none"
    /\ stopCall' = IF connected THEN "blocked" ELSE "returned"
    /\ UNCHANGED <<connected, reconnecting, reader, starter, trayState, notified, attempt>>
    /\ UNCHANGED <<sliderVars, mapVars>>

\* serial.go:366-381: a reload has changed the port or the baud rate; the
\* listener calls Stop(), which returns at once when the link is down and
\* never when it is up, waits 50 ms and calls Start()
Renew ==
    /\ ~crashed
    /\ starter[Renewer] = "off"
    /\ starter' = [starter EXCEPT ![Renewer] = IF connected THEN "blocked" ELSE "sleep"]
    /\ UNCHANGED <<connected, reconnecting, reader, stopCall, trayState, notified, attempt>>
    /\ UNCHANGED <<sliderVars, mapVars>>

LinkInit ==
    /\ reconnecting = FALSE
    /\ reader = [p \in Starters |-> "none"]
    /\ starter = [p \in Starters |-> IF p = 0 THEN "sleep" ELSE "off"]
    /\ stopCall = "none"
    /\ notified = FALSE
    /\ attempt = 1

LinkNext ==
    \/ \E p \in Starters : Start(p)
    \/ \E p \in Starters : Open(p)
    \/ \E p \in Starters : StartReader(p)
    \/ \E l \in Loops : RetryDone(l)
    \/ \E r \in Starters : ReadFails(r)
    \/ \E r \in Starters : ReaderCloses(r)
    \/ \E r \in Starters : ReaderSpawns(r)
    \/ Stop

\* the link with a configuration listener that renews the connection
RenewalNext ==
    \/ \E p \in Starters : Start(p)
    \/ \E p \in Starters : OpenPlain(p)
    \/ \E p \in Starters : StartReader(p)
    \/ \E l \in Loops : RetryDone(l)
    \/ \E r \in Starters : ReadFails(r)
    \/ \E r \in Starters : ReaderCloses(r)
    \/ \E r \in Starters : ReaderSpawns(r)
    \/ Renew

-----------------------------------------------------------------------------
\* Part II.  Targets and session keys: strings as sequences of characters

UpperChars == <<"A", "B", "C", "D", "E", "F", "G", "H", "I", "J", "K", "L", "M",
                "N", "O", "P", "Q", "R", "S", "T", "U", "V", "W", "X", "Y", "Z">>
LowerChars == <<"a", "b", "c", "d", "e", "f", "g", "h", "i", "j", "k", "l", "m",
                "n", "o", "p", "q", "r", "s", "t", "u", "v", "w", "x", "y", "z">>

IsUpper(ch) == \E i \in DOMAIN UpperChars : UpperChars[i] = ch

LowerChar(ch) ==
    IF IsUpper(ch)
    THEN LowerChars[CHOOSE i \in DOMAIN UpperChars : UpperChars[i] = ch]
    ELSE ch

\* strings.ToLower
ToLower(str) == [i \in DOMAIN str |-> LowerChar(str[i])]

\* strings.TrimPrefix
TrimPrefix(str, prefix) ==
    IF HasPrefix(str, prefix) THEN SubSeq(str, Len(prefix) + 1, Len(str)) ELSE str

masterSessionName == <<"m", "a", "s", "t", "e", "r">>
systemSessionName == <<"s", "y", "s", "t", "e", "m">>
inputSessionName == <<"m", "i", "c">>
specialTargetTransformPrefix == <<"d", "e", "e", "j", ".">>
specialTargetCurrentWindow == <<"c", "u", "r", "r", "e", "n", "t">>
specialTargetAllUnmapped == <<"u", "n", "m", "a", "p", "p", "e", "d">>

\* deviceSessionKeyPattern: ^.+ \(.+\)$
deviceSessionKeyPattern(key) ==
    \E i \in 2..Len(key) :
        /\ key[i] = " "
        /\ Len(key) >= i + 3
        /\ key[i + 1] = "("
        /\ key[Len(key)] = ")"

\* the session keys the audio backend reports
KeyChrome == <<"c", "h", "r", "o", "m", "e", ".", "e", "x", "e">>
KeySpotify == <<"s", "p", "o", "t", "i", "f", "y", ".", "e", "x", "e">>
KeyDevice == <<"h", "p", " ", "(", "u", "s", "b", ")">>

\* what GetAllSessions can return: the keys of the sessions, in order
Enumerations ==
    { <<KeyChrome, KeySpotify>>,
      <<KeyDevice, masterSessionName>>,
      <<KeySpotify, KeySpotify>> }

\* the target strings of the configurations
TargetChrome == KeyChrome
TargetSpotifyMixed == <<"S", "p", "o", "t", "i", "f", "y", ".", "e", "x", "e">>
TargetUnmapped == specialTargetTransformPrefix \o specialTargetAllUnmapped
TargetCurrent == specialTargetTransformPrefix \o specialTargetCurrentWindow
TargetUnknownSpecial == specialTargetTransformPrefix \o <<"x">>
TargetUnmappedMixed == <<"D", "e", "e", "j", ".">> \o specialTargetAllUnmapped
TargetDeejay == <<"D", "e", "e", "j", "a", "y">>

\* the slider mappings a configuration file can hold: slider index -> targets
InitialSliderMapping == (0 :> <<TargetChrome>>) @@ (1 :> <<TargetUnmapped>>)

SliderMappings ==
    { InitialSliderMapping,
      (0 :> <<TargetSpotifyMixed, TargetChrome>>) @@ (1 :> <<TargetCurrent, TargetUnknownSpecial, TargetDeejay>>),
      (0 :> <<TargetChrome>>) @@ (1 :> <<TargetUnmappedMixed>>) }

\* what util.GetCurrentWindowProcessNames can answer (none on failure)
CurrentWindowAnswers == { <<>>, <<TargetSpotifyMixed>> }

\* session_map.go:232-234
targetHasSpecialTransform(target) == HasPrefix(target, specialTargetTransformPrefix)

\* funk.UniqString
RECURSIVE UniqString(_)
UniqString(list) ==
    IF Len(list) = 0 THEN <<>>
    ELSE LET front == UniqString(SubSeq(list, 1, Len(list) - 1))
             x == list[Len(list)]
         IN  IF \E i \in DOMAIN front : front[i] = x THEN front ELSE Append(front, x)

\* session_map.go:249-282
applyTargetTransform(specialTargetName, unmapped, window) ==
    IF specialTargetName = specialTargetCurrentWindow
    THEN UniqString([i \in DOMAIN window |-> ToLower(window[i])])
    ELSE IF specialTargetName = specialTargetAllUnmapped
    THEN [i \in DOMAIN unmapped |-> unmapped[i].key]
    ELSE <<>>

resolveTargetKeepingCase(target, unmapped, window) ==
    IF targetHasSpecialTransform(ToLower(target))
    THEN applyTargetTransform(TrimPrefix(ToLower(target), specialTargetTransformPrefix),
                              unmapped, window)
    ELSE <<target>>

\* session_map.go:236-247
resolveTarget(target, unmapped, window) ==
    LET lowered == ToLower(target)
    IN  IF targetHasSpecialTransform(lowered)
        THEN applyTargetTransform(TrimPrefix(lowered, specialTargetTransformPrefix),
                                  unmapped, window)
        ELSE <<lowered>>

\* session_map.go:176-190: the callback on the targets of one slider.
\* "match", "nomatch", or "panic" when [0] indexes an empty resolution
RECURSIVE SliderVisit(_, _, _, _)
SliderVisit(targets, key, unmapped, window) ==
    IF Len(targets) = 0 THEN "nomatch"
    ELSE IF targetHasSpecialTransform(targets[1])
    THEN SliderVisit(Tail(targets), key, unmapped, window)
    ELSE LET resolved == resolveTarget(targets[1], unmapped, window)
         IN  IF Len(resolved) = 0 THEN "panic"
             ELSE IF resolved[1] = key THEN "match"
             ELSE SliderVisit(Tail(targets), key, unmapped, window)

AlwaysMappedNamesOnly(key) ==
    key \in {masterSessionName, systemSessionName, inputSessionName}

\* master/system/mic and device sessions always count as mapped (162-170)
AlwaysMapped(key) ==
    \/ key \in {masterSessionName, systemSessionName, inputSessionName}
    \/ deviceSessionKeyPattern(key)

\* session_map.go:160-194: "mapped", "unmapped" or "panic"
sessionMapped(key, mapping, unmapped, window) ==
    IF AlwaysMapped(key) THEN "mapped"
    ELSE LET visits == {SliderVisit(mapping[i], key, unmapped, window) : i \in DOMAIN mapping}
         IN  IF "panic" \in visits THEN "panic"
             ELSE IF "match" \in visits THEN "mapped"
             ELSE "unmapped"

-----------------------------------------------------------------------------
\* Session map

minTimeBetweenSessionRefreshes == 5

\* the goroutines that enumerate: the main one (initialize, then stop), the
\* config-reload listener (refreshSessions(false)), the tray menu
\* (refreshSessions(true)) and the one a failed SetVolume starts
\* (refreshSessions(true) after a delay)
Listeners == {"reload", "tray"}
Refreshers == Listeners \cup {"retry"}
Procs == {"main"} \cup Refreshers

ForceFromTrayOnly(p) == p = "tray"

Force(p) == p \in {"tray", "retry"}

\* a session handle is known by the goroutine whose GetAllSessions call
\* created it and its place in the answer
HandleIds == {[owner |-> p, idx |-> i] : p \in Procs, i \in UNION {DOMAIN e : e \in Enumerations}}

Free == [added |-> FALSE, releases |-> 0, live |-> FALSE]

\* the sessions held under any key
Held == UNION {{m[k][i] : i \in 1..Len(m[k])} : k \in DOMAIN m}

Alive == ~crashed /\ pc["main"] # "exited"

\* session_map.go:284-303, under the lock
add(table, session) ==
    IF session.key \in DOMAIN table
    THEN [table EXCEPT ![session.key] = Append(@, session.id)]
    ELSE table @@ (session.key :> <<session.id>>)

\* session_map.go:305-311, under the lock
get(table, key) == IF key \in DOMAIN table THEN table[key] ELSE <<>>

ReleasedNone(hs, ids) == hs

\* session_map.go:319-325: Release() on every session of the table
ReleasedAll(hs, ids) ==
    [h \in DOMAIN hs |-> IF h \in ids THEN [hs[h] EXCEPT !.releases = @ + 1] ELSE hs[h]]

\* a refresh in progress is disturbed when another goroutine rewrites the
\* unmapped snapshot or the slider mapping under it
Busy(p) == pc[p] \in {"add", "done"}
Disturb(by) == [p \in Procs |-> IF p # by /\ Busy(p) THEN TRUE ELSE disturbed[p]]

RateLimitedEvenIfForced(force, since) == since < minTimeBetweenSessionRefreshes

\* session_map.go:143: is a non-forced refresh still rate limited?
RateLimited(force, since) == ~force /\ since < minTimeBetweenSessionRefreshes

\* refreshSessions called (session_map.go:140-145); the retry goroutine
\* calls it when its 100 ms are over (220-221)
RefreshCall(p) ==
    /\ Alive /\ pc["main"] = "running"
    /\ pc[p] = IF p = "retry" THEN "sleep" ELSE "idle"
    /\ pc' = [pc EXCEPT ![p] = IF RateLimited(Force(p), sinceRefresh) THEN "skipped" ELSE "clear"]
    /\ UNCHANGED <<m, unmappedSessions, sinceRefresh, SliderMapping, handles,
                   finderReleased, connected, crashed, pending, enumerated, disturbed>>
    /\ UNCHANGED <<trackerVars, linkVars, configVars, lockVars>>
    /\ UNCHANGED volumeVars

\* refreshSessions returns (144, 155); initialize returns once the
\* subscriptions are set up (78-82)
RefreshReturn(p) ==
    /\ Alive
    /\ pc[p] \in {"skipped", "done"}
    /\ pc' = [pc EXCEPT ![p] = IF p = "main" THEN "running" ELSE "idle"]
    /\ enumerated' = [enumerated EXCEPT ![p] = <<>>]
    /\ disturbed' = [disturbed EXCEPT ![p] = FALSE]
    /\ UNCHANGED <<m, unmappedSessions, sinceRefresh, SliderMapping, handles,
                   finderReleased, connected, crashed, pending>>
    /\ UNCHANGED <<trackerVars, linkVars, configVars, lockVars>>
    /\ UNCHANGED volumeVars

\* clear() (session_map.go:313-328), one critical section
Clear(p) ==
    /\ Alive
    /\ pc[p] = "clear"
    /\ handles' = ReleasedAll(handles, Held)
    /\ m' = <<>>
    /\ pc' = [pc EXCEPT ![p] = "enum"]
    /\ UNCHANGED <<unmappedSessions, sinceRefresh, SliderMapping, finderReleased,
                   connected, crashed, pending, enumerated, disturbed>>
    /\ UNCHANGED <<trackerVars, linkVars, configVars, lockVars>>
    /\ UNCHANGED volumeVars

\* once the snapshot is reset no part of the map refers to a released handle
\* any more: from now on it is only known as a released handle
Stale == [owner |-> "none", idx |-> 0]
Retired(p, h) ==
    IF h = Stale \/ h.owner = p \/ handles[h].releases > 0 THEN Stale ELSE h

\* getAndAddSessions up to the answer of GetAllSessions (94-102)
GetAllSessions(p) ==
    /\ Alive
    /\ pc[p] = "enum"
    /\ sinceRefresh' = 0
    /\ unmappedSessions' = <<>>
    /\ \/ \E keys \in Enumerations :
             /\ LET sessions == [i \in DOMAIN keys |->
                                     [id |-> [owner |-> p, idx |-> i], key |-> keys[i]]]
                IN  /\ pending' = [pending EXCEPT ![p] = sessions]
                    /\ enumerated' = [enumerated EXCEPT ![p] = sessions]
                    /\ handles' = [h \in DOMAIN handles |->
                                     IF h.owner = p /\ h.idx \in DOMAIN keys
                                     THEN [added |-> FALSE, releases |-> 0, live |-> TRUE]
                                     ELSE IF Retired(p, h) = Stale THEN Free
                                     ELSE handles[h]]
             /\ pc' = [pc EXCEPT ![p] = "add"]
       \/ \* the backend fails: the error is returned and logged
          /\ pending' = [pending EXCEPT ![p] = <<>>]
          /\ enumerated' = [enumerated EXCEPT ![p] = <<>>]
          /\ handles' = [h \in DOMAIN handles |->
                           IF Retired(p, h) = Stale THEN Free ELSE handles[h]]
          /\ pc' = [pc EXCEPT ![p] = IF p = "main" THEN "exited" ELSE "done"]
    /\ disturbed' = [Disturb(p) EXCEPT ![p] = FALSE]
    /\ tasks' = {[t EXCEPT !.session = Retired(p, @)] : t \in tasks}
    /\ found' = {Retired(p, h) : h \in found}
    /\ spawned' = {Retired(p, h) : h \in spawned}
    /\ failed' = {Retired(p, h) : h \in failed}
    /\ UNCHANGED <<m, SliderMapping, finderReleased, connected, crashed, handler>>
    /\ UNCHANGED <<trackerVars, linkVars, configVars, lockVars>>

\* one turn of the loop of getAndAddSessions (104-109)
AddSession(p) ==
    /\ Alive
    /\ pc[p] = "add"
    /\ IF Len(pending[p]) = 0
       THEN /\ pc' = [pc EXCEPT ![p] = "done"]
            /\ UNCHANGED <<m, unmappedSessions, handles, crashed, pending, disturbed>>
       ELSE \E window \in CurrentWindowAnswers :
            LET session == pending[p][1]
                verdict == sessionMapped(session.key, SliderMapping, unmappedSessions, window)
            IN  /\ m' = add(m, session)
                /\ handles' = [handles EXCEPT ![session.id].added = TRUE]
                /\ pending' = [pending EXCEPT ![p] = Tail(@)]
                /\ crashed' = (verdict = "panic")
                /\ unmappedSessions' = IF verdict = "unmapped"
                                       THEN Append(unmappedSessions, session)
                                       ELSE unmappedSessions
                /\ disturbed' = IF verdict = "unmapped" THEN Disturb(p) ELSE disturbed
                /\ pc' = pc
    /\ UNCHANGED <<sinceRefresh, SliderMapping, finderReleased, connected, enumerated>>
    /\ UNCHANGED <<trackerVars, linkVars, configVars, lockVars>>
    /\ UNCHANGED volumeVars

\* time passes; the clock is looked at right after a refresh, one second
\* before the rate limit ends, and from then on
ObservedAges == {0, minTimeBetweenSessionRefreshes - 1, minTimeBetweenSessionRefreshes}

Tick ==
    /\ Alive
    /\ \E later \in ObservedAges :
          /\ later > sinceRefresh
          /\ sinceRefresh' = later
    /\ UNCHANGED <<m, unmappedSessions, SliderMapping, handles, finderReleased,
                   connected, crashed, pc, pending, enumerated, disturbed>>
    /\ UNCHANGED <<trackerVars, linkVars, configVars, lockVars>>
    /\ UNCHANGED volumeVars

\* the configuration file is reloaded with another slider mapping
ConfigReload ==
    /\ Alive /\ pc["main"] = "running"
    /\ \E mapping \in SliderMappings \ {SliderMapping} :
          SliderMapping' = mapping
    /\ disturbed' = Disturb("main")
    /\ UNCHANGED <<m, unmappedSessions, sinceRefresh, handles, finderReleased,
                   connected, crashed, pc, pending, enumerated>>
    /\ UNCHANGED <<trackerVars, linkVars, configVars, lockVars>>
    /\ UNCHANGED volumeVars

\* sessionMap.release (session_map.go:85-92)
release == finderReleased' = TRUE

\* a stop is signalled by the tray's Quit or by an interrupt, and run()
\* receives it (tray.go:384, 396-399)
SignalStop ==
    /\ Alive /\ pc["main"] = "running"
    /\ pc' = [pc EXCEPT !["main"] = "stopping"]
    /\ UNCHANGED <<m, unmappedSessions, sinceRefresh, SliderMapping, handles,
                   finderReleased, connected, crashed, pending, enumerated, disturbed>>
    /\ UNCHANGED <<trackerVars, linkVars, configVars, lockVars>>
    /\ UNCHANGED volumeVars

\* run() calls Deej.stop (tray.go:386-393, 401-419).  serial.Stop() returns
\* only when the link is not connected; while it is connected the caller
\* stays in the send on stopChannel (serial.go:331-338).  After serial.Stop()
\* the session map is released and the process exits
DeejStop ==
    /\ Alive /\ pc["main"] = "stopping"
    /\ IF connected
       THEN /\ pc' = [pc EXCEPT !["main"] = "blocked"]
            /\ UNCHANGED finderReleased
       ELSE /\ release
            /\ pc' = [pc EXCEPT !["main"] = "exited"]
    /\ UNCHANGED <<m, unmappedSessions, sinceRefresh, SliderMapping, handles,
                   connected, crashed, pending, enumerated, disturbed>>
    /\ UNCHANGED <<trackerVars, linkVars, configVars, lockVars>>
    /\ UNCHANGED volumeVars

-----------------------------------------------------------------------------
\* Slider-move handling (session_map.go:196-230)

\* the events the handler is called with: a mapped slider, another one, and a
\* slider without targets
SliderIDs == {0, 1, 2}
PercentValues == {50}
HandlerIdle == [pc |-> "idle", volume |-> 0, targets |-> <<>>, target |-> <<>>,
                resolvedTargets |-> <<>>]

Range(seq) == {seq[i] : i \in DOMAIN seq}

SpawnedForFirstOnly(sessions, volume) ==
    {[session |-> sessions[i], volume |-> volume] : i \in DOMAIN sessions \cap {1}}

\* session_map.go:215-227: one goroutine per session of the key
SpawnedFor(sessions, volume) ==
    {[session |-> sessions[i], volume |-> volume] : i \in DOMAIN sessions}

\* handleSliderMoveEvent is called with an event (196-204) whose value is one
\* of values
HandleEvent(values) ==
    /\ Alive /\ pc["main"] = "running"
    /\ handler.pc = "idle"
    /\ \E SliderID \in SliderIDs, PercentValue \in values :
          handler' = IF SliderID \in DOMAIN SliderMapping
                     THEN [HandlerIdle EXCEPT !.pc = "resolve", !.volume = PercentValue,
                                              !.targets = SliderMapping[SliderID]]
                     ELSE HandlerIdle
    /\ UNCHANGED <<m, unmappedSessions, sinceRefresh, SliderMapping, handles,
                   finderReleased, connected, crashed, pc, pending, enumerated,
                   disturbed, tasks, found, spawned, failed>>
    /\ UNCHANGED <<trackerVars, linkVars, configVars, lockVars>>

HandleSliderMoveEvent == HandleEvent(PercentValues)

\* the slider is moved on: events with different values, handled one after
\* another by the loop of setupOnSliderMove
SuccessiveValues == {50, 100}
HandleSuccessiveEvents == HandleEvent(SuccessiveValues)

\* the next target is resolved (205-207), or the handler returns
ResolveNextTarget ==
    /\ Alive
    /\ handler.pc = "resolve"
    /\ IF Len(handler.targets) = 0
       THEN /\ handler' = HandlerIdle
            /\ found' = {}
            /\ spawned' = {}
            /\ failed' = {}
       ELSE /\ \E window \in CurrentWindowAnswers :
                  handler' = [handler EXCEPT
                                 !.pc = "get",
                                 !.target = Head(handler.targets),
                                 !.targets = Tail(handler.targets),
                                 !.resolvedTargets =
                                     resolveTarget(Head(handler.targets), unmappedSessions, window)]
            /\ UNCHANGED <<found, spawned, failed>>
    /\ UNCHANGED <<m, unmappedSessions, sinceRefresh, SliderMapping, handles,
                   finderReleased, connected, crashed, pc, pending, enumerated,
                   disturbed, tasks>>
    /\ UNCHANGED <<trackerVars, linkVars, configVars, lockVars>>

\* the sessions of the next resolved key are looked up and a SetVolume
\* goroutine is started for each (208-228)
GetSessions ==
    /\ Alive
    /\ handler.pc = "get"
    /\ IF Len(handler.resolvedTargets) = 0
       THEN /\ handler' = [handler EXCEPT !.pc = "resolve"]
            /\ UNCHANGED <<tasks, found, spawned>>
       ELSE LET sessions == get(m, Head(handler.resolvedTargets))
                started == SpawnedFor(sessions, handler.volume)
            IN  /\ handler' = [handler EXCEPT !.resolvedTargets = Tail(@)]
                /\ found' = found \cup Range(sessions)
                /\ tasks' = tasks \cup started
                /\ spawned' = spawned \cup {t.session : t \in started}
    /\ UNCHANGED <<m, unmappedSessions, sinceRefresh, SliderMapping, handles,
                   finderReleased, connected, crashed, pc, pending, enumerated,
                   disturbed, failed>>
    /\ UNCHANGED <<trackerVars, linkVars, configVars, lockVars>>

\* SetVolume returns without error (223-225); a call that never returns is a
\* goroutine that stays in tasks
SetVolumeReturns ==
    /\ Alive
    /\ \E t \in tasks :
          /\ tasks' = tasks \ {t}
    /\ UNCHANGED <<m, unmappedSessions, sinceRefresh, SliderMapping, handles,
                   finderReleased, connected, crashed, pc, pending, enumerated,
                   disturbed, handler, found, spawned, failed>>
    /\ UNCHANGED <<trackerVars, linkVars, configVars, lockVars>>

\* SetVolume returns an error: a goroutine is started that sleeps and then
\* forces a refresh (217-222)
SetVolumeFails ==
    /\ Alive
    /\ pc["retry"] = "idle"
    /\ \E t \in tasks :
          /\ tasks' = tasks \ {t}
          /\ failed' = failed \cup {t.session}
    /\ pc' = [pc EXCEPT !["retry"] = "sleep"]
    /\ UNCHANGED <<m, unmappedSessions, sinceRefresh, SliderMapping, handles,
                   finderReleased, connected, crashed, pending, enumerated,
                   disturbed, handler, found, spawned>>
    /\ UNCHANGED <<trackerVars, linkVars, configVars, lockVars>>

SessionInit ==
    /\ m = <<>>
    /\ unmappedSessions = <<>>
    /\ sinceRefresh = minTimeBetweenSessionRefreshes
    /\ SliderMapping = InitialSliderMapping
    /\ handles = [h \in HandleIds |-> Free]
    /\ finderReleased = FALSE
    /\ connected = FALSE
    /\ crashed = FALSE
    /\ pc = [p \in Procs |-> IF p = "main" THEN "enum" ELSE "idle"]
    /\ pending = [p \in Procs |-> <<>>]
    /\ enumerated = [p \in Procs |-> <<>>]
    /\ disturbed = [p \in Procs |-> FALSE]
    /\ handler = HandlerIdle
    /\ tasks = {}
    /\ found = {}
    /\ spawned = {}
    /\ failed = {}

RefreshNext ==
    \/ \E p \in Listeners : RefreshCall(p)
    \/ \E p \in Procs : RefreshReturn(p)
    \/ \E p \in Listeners : Clear(p)
    \/ \E p \in Procs : GetAllSessions(p)
    \/ \E p \in Procs : AddSession(p)
    \/ Tick
    \/ ConfigReload
    \/ SignalStop
    \/ DeejStop

\* start-up, the link and the shutdown
ShutdownNext ==
    \/ GetAllSessions("main")
    \/ AddSession("main")
    \/ RefreshReturn("main")
    \/ \E p \in Starters : Start(p)
    \/ \E p \in Starters : Open(p)
    \/ \E p \in Starters : StartReader(p)
    \/ \E l \in Loops : RetryDone(l)
    \/ \E r \in Starters : ReadFails(r)
    \/ \E r \in Starters : ReaderCloses(r)
    \/ \E r \in Starters : ReaderSpawns(r)
    \/ SignalStop
    \/ DeejStop

VolumeNext ==
    \/ RefreshCall("retry")
    \/ \E p \in Procs : RefreshReturn(p)
    \/ Clear("retry")
    \/ \E p \in Procs : GetAllSessions(p)
    \/ \E p \in Procs : AddSession(p)
    \/ ConfigReload
    \/ HandleSliderMoveEvent
    \/ ResolveNextTarget
    \/ GetSessions
    \/ SetVolumeReturns
    \/ SetVolumeFails

\* successive moves of a slider against the sessions of the first enumeration
LastWinsNext ==
    \/ GetAllSessions("main")
    \/ AddSession("main")
    \/ RefreshReturn("main")
    \/ HandleSuccessiveEvents
    \/ ResolveNextTarget
    \/ GetSessions
    \/ SetVolumeReturns

-----------------------------------------------------------------------------
\* Part IV: the slider mapping built from the configurations (slider_map.go)

\* the longest list of targets of one key in the configurations tried
MaxTargets == 2

\* the targets written in the configurations; "" is an empty entry
ConfigTargets == {"", "a", "b"}

\* the keys written by the user: the slider 0, and a key that is not a number
UserKeys == { <<"0">>, <<"x">> }

\* the keys of the internal configuration
InternalKeys == { <<"0">>, <<"1">> }

\* the mappings with some of the keys, each with a list of targets
MappingsOver(keys) ==
    UNION {[ks -> SeqsUpTo(ConfigTargets, MaxTargets)] : ks \in SUBSET keys}

DecimalDigits == <<"0", "1", "2", "3", "4", "5", "6", "7", "8", "9">>

IsDecimal(ch) == \E i \in DOMAIN DecimalDigits : DecimalDigits[i] = ch

DecimalValue(ch) == (CHOOSE i \in DOMAIN DecimalDigits : DecimalDigits[i] = ch) - 1

RECURSIVE DecimalNumber(_)
DecimalNumber(str) ==
    IF str = <<>> THEN 0
    ELSE 10 * DecimalNumber(SubSeq(str, 1, Len(str) - 1)) + DecimalValue(str[Len(str)])

\* slider_map.go:26-33: strconv.Atoi with its error dropped: the number the
\* string writes, with or without sign, and 0 for any other string
getSliderIdx(sliderIdxString) ==
    LET signed == sliderIdxString # <<>> /\ sliderIdxString[1] \in {"+", "-"}
        digits == IF signed THEN Tail(sliderIdxString) ELSE sliderIdxString
    IN  IF digits # <<>> /\ \A i \in DOMAIN digits : IsDecimal(digits[i])
        THEN IF signed /\ sliderIdxString[1] = "-"
             THEN 0 - DecimalNumber(digits)
             ELSE DecimalNumber(digits)
        ELSE 0

\* sliderMap.set (slider_map.go:101-106)
set(table, key, value) ==
    [k \in DOMAIN table \cup {key} |-> IF k = key THEN value ELSE table[k]]

\* sliderMap.get (slider_map.go:93-99), with no targets for a missing key
existingTargetsOf(table, key) == IF key \in DOMAIN table THEN table[key] ELSE <<>>

\* slider_map.go:40-45: the entries that are not empty, in their order
filteredTargets(targets) == SelectSeq(targets, LAMBDA target : target # "")

\* slider_map.go:36-50: the user's keys, in the order in which the range over
\* the map comes by them; a key with targets left sets its slider's list
RECURSIVE CopyUserTargets(_, _, _)
CopyUserTargets(order, mapping, table) ==
    IF order = <<>> THEN table
    ELSE LET sliderIdx == getSliderIdx(Head(order))
             filtered == filteredTargets(mapping[Head(order)])
         IN  CopyUserTargets(Tail(order), mapping,
                             IF Len(filtered) > 0 THEN set(table, sliderIdx, filtered)
                             ELSE table)

\* slider_map.go:68-73: the targets that are not empty and not in the set of
\* the existing ones, each added to that set as it is taken
RECURSIVE newTargets(_, _)
newTargets(targets, existingSet) ==
    IF targets = <<>> THEN <<>>
    ELSE IF Head(targets) # "" /\ Head(targets) \notin existingSet
         THEN <<Head(targets)>> \o newTargets(Tail(targets), existingSet \cup {Head(targets)})
         ELSE newTargets(Tail(targets), existingSet)

\* slider_map.go:53-79: the internal keys, in the order of the range
RECURSIVE AddInternalTargets(_, _, _)
AddInternalTargets(order, mapping, table) ==
    IF order = <<>> THEN table
    ELSE LET sliderIdx == getSliderIdx(Head(order))
             existingTargets == existingTargetsOf(table, sliderIdx)
             existingSet == {existingTargets[i] : i \in DOMAIN existingTargets}
             new == newTargets(mapping[Head(order)], existingSet)
         IN  AddInternalTargets(Tail(order), mapping,
                                IF Len(new) > 0
                                THEN set(table, sliderIdx, existingTargets \o new)
                                ELSE table)

\* the orders in which a range over a Go map can come by its keys
RangeOrders(keys) ==
    {order \in [1..Cardinality(keys) -> keys] :
        \A i, j \in 1..Cardinality(keys) : i # j => order[i] # order[j]}

\* slider_map.go:21-82
sliderMapFromConfigs(user, internal, userOrder, internalOrder) ==
    AddInternalTargets(internalOrder, internal, CopyUserTargets(userOrder, user, <<>>))

\* the configurations are read and merged, once
SliderMapFromConfigs ==
    /\ userMapping = <<>> /\ internalMapping = <<>> /\ resultMap = <<>>
    /\ \E user \in MappingsOver(UserKeys), internal \in MappingsOver(InternalKeys) :
          \E userOrder \in RangeOrders(DOMAIN user),
             internalOrder \in RangeOrders(DOMAIN internal) :
                /\ userMapping' = user
                /\ internalMapping' = internal
                /\ resultMap' = sliderMapFromConfigs(user, internal, userOrder, internalOrder)
    /\ UNCHANGED <<trackerVars, linkVars, lockVars>>
    /\ UNCHANGED <<m, unmappedSessions, sinceRefresh, SliderMapping, handles,
                   finderReleased, connected, crashed, pc, pending, enumerated,
                   disturbed, volumeVars>>

ConfigInit ==
    /\ userMapping = <<>>
    /\ internalMapping = <<>>
    /\ resultMap = <<>>

MergeNext == SliderMapFromConfigs

-----------------------------------------------------------------------------
\* Part V: the mutex of the slider data (serial.go:37, 502-503, 627-628)

\* the tasks that take the mutex: a line handler in processSliderData, and a
\* caller of GetNumSliders (web_config.go:638)
MutexTasks == {"processSliderData", "GetNumSliders"}

\* everything but the tracker and the mutex
besideTracker == <<m, unmappedSessions, sinceRefresh, SliderMapping, handles,
                   finderReleased, connected, crashed, pc, pending, enumerated,
                   disturbed, volumeVars, linkVars, configVars>>

\* sliderDataMutex.Lock() (serial.go:502, 627)
LockSliderData(t) ==
    /\ sliderDataMutex = "free"
    /\ sliderDataMutex' = t
    /\ UNCHANGED <<trackerVars, besideTracker, lineTasks>>

\* processSliderData with the mutex held, up to the deferred Unlock
\* (serial.go:503-591)
ProcessLocked ==
    /\ sliderDataMutex = "processSliderData"
    /\ \E l \in DeviceLines :
           /\ RouteOf[l].to = "sliders"
           /\ BacklogOk
           /\ processSliderData(RouteOf[l].data, l.kind)
    /\ sliderDataMutex' = "free"
    /\ UNCHANGED <<besideTracker, lineTasks>>

\* GetNumSliders reads the count and unlocks (serial.go:628-629)
GetNumSliders ==
    /\ sliderDataMutex = "GetNumSliders"
    /\ sliderDataMutex' = "free"
    /\ UNCHANGED <<trackerVars, besideTracker, lineTasks>>

LockInit == sliderDataMutex = "free" /\ lineTasks = <<>>

MutexNext ==
    \/ \E t \in MutexTasks : LockSliderData(t)
    \/ ProcessLocked
    \/ GetNumSliders
    \/ Receive
    \/ SerialConfigReload
    \/ ResetSliderCount

\* the reader loop takes a line off lineChannel and starts a goroutine for it
\* (serial.go:298-301)
DispatchLine ==
    /\ Len(lineTasks) < MaxDispatched
    /\ \E l \in DeviceLines :
           /\ RouteOf[l].to = "sliders"
           /\ lineTasks' = Append(lineTasks, [line |-> l, done |-> FALSE])
    /\ UNCHANGED <<trackerVars, sliderDataMutex, besideTracker>>

\* one of the goroutines runs handleLine to its end: it passes
\* sliderDataMutex.Lock() when the mutex is free, and which of the waiting
\* goroutines does is up to the scheduler (serial.go:433-494, 496-591)
RunHandleLine ==
    /\ sliderDataMutex = "free"
    /\ BacklogOk
    /\ \E i \in DOMAIN lineTasks :
           /\ ~lineTasks[i].done
           /\ handleLine(lineTasks[i].line)
           /\ lineTasks' = [lineTasks EXCEPT ![i].done = TRUE]
    /\ UNCHANGED <<sliderDataMutex, besideTracker>>

DispatchNext ==
    \/ DispatchLine
    \/ RunHandleLine
    \/ Receive

-----------------------------------------------------------------------------
\* Part VI: the listener of configuration reloads (serial.go:349-384)

\* one reload taken off the channel by the listener (serial.go:355-382): the
\* settings are the new ones, the goroutine of the delayed reset is started,
\* and when the port or the baud rate changed the listener calls Stop() -
\* which returns only when the link is down - and goes on to Start()
ConfigReloaded ==
    /\ ~crashed
    /\ starter[Renewer] = "off"
    /\ \E inv \in BOOLEAN, lvl \in NoiseLevels, changed \in BOOLEAN :
           /\ InvertSliders' = inv
           /\ NoiseReductionLevel' = lvl
           /\ resetPending' = TRUE
           /\ last' = Observation("reload", "none", <<>>)
           /\ starter' = [starter EXCEPT ![Renewer] =
                             IF ~changed THEN "off"
                             ELSE IF connected THEN "blocked" ELSE "sleep"]
    /\ UNCHANGED <<lastKnownNumSliders, currentSliderPercentValues,
                   sliderMoveConsumers, trayState, moveEvents>>
    /\ UNCHANGED <<connected, reconnecting, reader, stopCall, notified, attempt>>
    /\ UNCHANGED mapVars

\* a reload while the listener is still in Stop(): the settings are the new
\* ones (they are read from the configuration, serial.go:539, 547), but the
\* listener does not come back to its channel and starts nothing
ReloadUnheard ==
    /\ ~crashed
    /\ starter[Renewer] = "blocked"
    /\ \E inv \in BOOLEAN, lvl \in NoiseLevels :
           /\ InvertSliders' = inv
           /\ NoiseReductionLevel' = lvl
           /\ last' = Observation("unheard", "none", <<>>)
    /\ UNCHANGED <<lastKnownNumSliders, currentSliderPercentValues,
                   sliderMoveConsumers, resetPending, trayState, moveEvents>>
    /\ UNCHANGED sessionVars

ReloadNext ==
    \/ Start(Renewer)
    \/ OpenPlain(Renewer)
    \/ StartReader(Renewer)
    \/ ConfigReloaded
    \/ ReloadUnheard
    \/ ResetSliderCount
    \/ HandleLine
    \/ Receive

-----------------------------------------------------------------------------

vars == <<trackerVars, sessionVars>>

Init == TrackerInit /\ LinkInit /\ SessionInit /\ ConfigInit /\ LockInit

SpecTracker == Init /\ [][TrackerNext]_vars

\* the line handler and the tracker, fed one line of every kind
SpecDecoder == Init /\ [][DecoderNext]_vars

\* the tracker under a burst of frames and a subscriber that may fall behind
SpecBurst == Init /\ [][BurstNext]_vars

\* the link with its reader, its reconnection loops and a caller of Stop()
SpecLink == Init /\ [][LinkNext]_vars

\* every goroutine of the link that can take a step takes it in the end; that
\* a read fails or that a port opens is up to the device
SpecLinkFair ==
    /\ SpecLink
    /\ \A p \in Starters : WF_vars(StartReader(p))
    /\ \A l \in Loops : WF_vars(RetryDone(l))
    /\ \A r \in Starters : WF_vars(ReaderCloses(r))
    /\ \A r \in Starters : WF_vars(ReaderSpawns(r))

SpecRenewal == Init /\ [][RenewalNext]_vars

SpecShutdown == Init /\ [][ShutdownNext]_vars

\* run() goes on to Deej.stop once it has the signal, and the goroutines of
\* the link are scheduled
SpecShutdownFair ==
    /\ SpecShutdown
    /\ WF_vars(DeejStop)
    /\ \A p \in Starters : WF_vars(StartReader(p))
    /\ \A l \in Loops : WF_vars(RetryDone(l))
    /\ \A r \in Starters : WF_vars(ReaderCloses(r))
    /\ \A r \in Starters : WF_vars(ReaderSpawns(r))

SpecRefresh == Init /\ [][RefreshNext]_vars

\* the slider mapping built from every pair of configurations tried
SpecMerge == Init /\ [][MergeNext]_vars

\* the tasks that read and write the slider data, with the mutex
SpecMutex == Init /\ [][MutexNext]_vars

\* the tracker, the link and the listener of configuration reloads, which
\* is the one to connect the link here
SpecReload == Init /\ [][ReloadNext]_vars

\* the goroutines that can take a step take it in the end
SpecReloadFair ==
    /\ SpecReload
    /\ WF_vars(Start(Renewer))
    /\ WF_vars(OpenPlain(Renewer))
    /\ WF_vars(StartReader(Renewer))
    /\ WF_vars(ResetSliderCount)

SpecVolume == Init /\ [][VolumeNext]_vars

\* the reader loop and the handleLine goroutines it starts
SpecDispatch == Init /\ [][DispatchNext]_vars

SpecLastWins == Init /\ [][LastWinsNext]_vars

\* a goroutine that can run is run in the end, and the lock is free again
\* after every critical section
SpecVolumeFair ==
    /\ SpecVolume
    /\ WF_vars(RefreshCall("retry"))
    /\ WF_vars(Clear("retry"))
    /\ WF_vars(GetAllSessions("retry"))

Next ==
    \/ TrackerNext
    \/ DecoderNext
    \/ BurstNext
    \/ LinkNext
    \/ RenewalNext
    \/ ShutdownNext
    \/ RefreshNext
    \/ VolumeNext
    \/ LastWinsNext
    \/ MergeNext
    \/ MutexNext
    \/ DispatchNext
    \/ ReloadNext

Spec == Init /\ [][Next]_vars

-----------------------------------------------------------------------------
\* Properties of the slider state tracker (checked under SpecTracker)

\* the slider ids of a list of events, in order
Ids(events) == [i \in 1..Len(events) |-> events[i].SliderID]

\* what processSliderData does to a tracker holding (known, values) on the
\* readings of frame f, under the present settings
Run(f, known, values) ==
    SliderLoop([i \in 1..Len(f) |-> <<Num(f[i])>>], 1,
               ResyncedValues(Len(f), known, values), <<>>,
               InvertSliders, NoiseReductionLevel)

Distance(a, b) == IF a >= b THEN a - b ELSE b - a

\* C1: a frame that is accepted while lastKnownNumSliders differs from its
\* reading count M emits exactly M move events, one per index 0..M-1 in order,
\* whatever the noise level and the values stored before.
C1_ResyncEmitsAll ==
    [][(last'.op = "frame" /\ lastKnownNumSliders' # lastKnownNumSliders)
        => Ids(moveEvents') = [i \in 1..lastKnownNumSliders' |-> i - 1]]_vars

\* a frame of MaxSliders readings has just replaced a different count and
\* emitted all its sliders under the coarsest noise level
C1_Witness ==
    /\ last.op = "frame"
    /\ NoiseReductionLevel = "high"
    /\ lastKnownNumSliders = MaxSliders
    /\ Len(moveEvents) = MaxSliders
    /\ currentSliderPercentValues[1] # currentSliderPercentValues[MaxSliders]

\* C2: the events of one accepted frame of N readings are at most N, and no
\* slider index occurs in two of them.
C2_AtMostOncePerIndex ==
    last.op = "frame" =>
        /\ Len(moveEvents) <= lastKnownNumSliders
        /\ \A i, j \in 1..Len(moveEvents) :
              i # j => moveEvents[i].SliderID # moveEvents[j].SliderID

\* a frame of several readings emitted an event for some but not all of them
C2_Witness ==
    /\ last.op = "frame"
    /\ lastKnownNumSliders = MaxSliders
    /\ Len(moveEvents) > 0
    /\ Len(moveEvents) < MaxSliders

C4_TornFirstFieldEmitsNothing ==
    [][(last'.first > MaxReading)
        => /\ moveEvents' = <<>>
           /\ \A c \in DOMAIN sliderMoveConsumers :
                 \/ sliderMoveConsumers'[c] = sliderMoveConsumers[c]
                 \/ sliderMoveConsumers'[c] = Tail(sliderMoveConsumers[c])]_vars

\* a structured sliders message with a torn first field was discarded
C4_Witness ==
    /\ last.op = "malformed"
    /\ last.kind = "sliders"
    /\ last.first > MaxReading
    /\ lastKnownNumSliders = MaxSliders

\* ---- the session map

\* the goroutine p took a step of its own
Moved(p) == pc'[p] # pc[p]

SessionState == <<m, unmappedSessions, sinceRefresh, handles>>

\* C5: refreshSessions(false) called less than 5 seconds after the previous
\* refresh does nothing: no clear, no Release, no enumeration, and the table,
\* the unmapped snapshot and the time of the last refresh stay as they were.
\* refreshSessions(true) clears and enumerates again whatever the time.
C5_RateLimit ==
    [][\A p \in Listeners :
          /\ (Moved(p) /\ pc[p] = "idle" /\ ~Force(p)
                /\ sinceRefresh < minTimeBetweenSessionRefreshes)
             => (pc'[p] = "skipped" /\ UNCHANGED SessionState)
          /\ (Moved(p) /\ pc[p] = "skipped")
             => (pc'[p] = "idle" /\ UNCHANGED SessionState)
          /\ (Moved(p) /\ pc[p] = "idle" /\ Force(p)) => pc'[p] = "clear"
          /\ (Moved(p) /\ pc[p] = "clear")
             => /\ pc'[p] = "enum"
                /\ m' = <<>>
                /\ \A h \in Held : handles'[h].releases = handles[h].releases + 1
          /\ (Moved(p) /\ pc[p] = "enum")
             => (pc'[p] \in {"add", "done"} /\ sinceRefresh' = 0)]_vars

\* a rate-limited call and a forced one, both less than 5 seconds after the
\* last refresh, with sessions in the table
C5_Witness ==
    /\ pc["reload"] = "skipped"
    /\ pc["tray"] = "clear"
    /\ sinceRefresh = minTimeBetweenSessionRefreshes - 1
    /\ Held # {}

\* the keys a refresh has to leave in the unmapped snapshot
Configured(key, mapping) ==
    \E i \in DOMAIN mapping : \E j \in DOMAIN mapping[i] :
        /\ ~HasPrefix(ToLower(mapping[i][j]), specialTargetTransformPrefix)
        /\ ToLower(mapping[i][j]) = key

IsUnmappedKey(session) ==
    /\ session.key \notin {masterSessionName, systemSessionName, inputSessionName}
    /\ ~deviceSessionKeyPattern(session.key)
    /\ ~Configured(session.key, SliderMapping)

KeysOf(sessions) == [i \in DOMAIN sessions |-> sessions[i].key]

Occurrences(h) ==
    Cardinality({<<k, i>> \in (DOMAIN m) \X (1..Cardinality(HandleIds)) :
                    i <= Len(m[k]) /\ m[k][i] = h})

\* C8: a handle that was added to the map is in the map once and not released,
\* or has left it with exactly one Release()
C8_ReleasedExactlyOnce ==
    \A h \in HandleIds :
        /\ handles[h].releases <= 1
        /\ h \in Held => (handles[h].added /\ handles[h].releases = 0 /\ Occurrences(h) = 1)
        /\ (handles[h].added /\ h \notin Held) => handles[h].releases = 1

\* two refreshes overlap: a handle the tray refresh has added, while it is
\* still adding, has been released by the clear of the reload refresh
C8_Witness ==
    /\ pc["reload"] = "enum" /\ pc["tray"] = "add" /\ pending["tray"] # <<>>
    /\ \E h \in HandleIds :
          /\ h.owner = "tray"
          /\ handles[h].added /\ h \notin Held /\ handles[h].releases = 1

\* C9: once release() has run at shutdown every session that was held has
\* been released, the map is empty and the backend is disconnected
C9_ReleaseClears ==
    finderReleased
    => /\ m = <<>>
       /\ \A h \in HandleIds : handles[h].added => handles[h].releases = 1

\* ---- slider-move handling

\* C6: a target that does not start with "deej." in any letter case resolves
\* to the one-element list holding the target in lower case
C6_ResolveLowercases ==
    [][(handler.pc = "resolve" /\ handler'.pc = "get"
          /\ ~HasPrefix(ToLower(handler'.target), specialTargetTransformPrefix))
       => /\ handler'.resolvedTargets = <<ToLower(handler'.target)>>
          /\ Len(handler'.resolvedTargets[1]) = Len(handler'.target)
          /\ \A i \in DOMAIN handler'.target :
                /\ ~IsUpper(handler'.resolvedTargets[1][i])
                /\ ~IsUpper(handler'.target[i])
                   => handler'.resolvedTargets[1][i] = handler'.target[i]]_vars

\* "Spotify.exe" has just been resolved to "spotify.exe"
C6_Witness ==
    /\ handler.pc = "get"
    /\ handler.target = TargetSpotifyMixed
    /\ handler.resolvedTargets = <<KeySpotify>>

\* C10: every session a lookup of the event returned has had its SetVolume
\* goroutine started, whatever became of the others, and the handler's next
\* step never waits for one of them
C10_AllSessionsAttempted ==
    /\ found \subseteq spawned
    /\ (Alive /\ handler.pc = "resolve") => ENABLED ResolveNextTarget
    /\ (Alive /\ handler.pc = "get") => ENABLED GetSessions

\* the handler is about to return from an event that found two sessions: one
\* SetVolume has failed, another has not returned
C10_Witness ==
    /\ handler.pc = "resolve" /\ handler.targets = <<>>
    /\ Cardinality(found) >= 2
    /\ failed # {}
    /\ \E t \in tasks : t.session \in spawned \ failed

\* C11: a SetVolume error starts nothing but the delayed goroutine (no new
\* SetVolume), and while the process runs that goroutine goes on to a forced
\* refresh: it clears and enumerates again, also inside the 5 seconds of the
\* rate limit
C11_FailureForcesRefresh ==
    /\ [][/\ Cardinality(failed') > Cardinality(failed)
             => (pc["retry"] = "idle" /\ pc'["retry"] = "sleep"
                 /\ tasks' \subseteq tasks /\ tasks' # tasks)
          /\ (pc["retry"] = "sleep" /\ Moved("retry")) => pc'["retry"] = "clear"
          /\ (pc["retry"] = "clear" /\ Moved("retry"))
             => (pc'["retry"] = "enum" /\ m' = <<>>)
          /\ (pc["retry"] = "enum" /\ Moved("retry"))
             => (pc'["retry"] \in {"add", "done"} /\ sinceRefresh' = 0)]_vars
    /\ (pc["retry"] = "sleep") ~> (pc["retry"] \in {"add", "done"} \/ ~Alive)

\* the forced refresh of a failed SetVolume has cleared the table less than
\* 5 seconds after the last refresh
C11_Witness ==
    /\ pc["retry"] = "enum"
    /\ failed # {}
    /\ sinceRefresh < minTimeBetweenSessionRefreshes
    /\ \E h \in HandleIds : handles[h].releases = 1

-----------------------------------------------------------------------------
\* Properties of the line handler (checked under SpecDecoder)

\* C12: every move event delivered to a subscriber carries a slider id in
\* 0..N-1, N being the reading count of its frame, and a value within
\* [0.0, 1.0], for every line the handler forwards to the tracker and both
\* invert settings.
C12_EventsInRange ==
    /\ last.op = "frame" =>
          \A i \in 1..Len(moveEvents) :
              /\ moveEvents[i].SliderID \in 0..(lastKnownNumSliders - 1)
              /\ moveEvents[i].PercentValue \in 0..100
    /\ \A c \in DOMAIN sliderMoveConsumers :
          \A i \in 1..Len(sliderMoveConsumers[c]) :
              /\ sliderMoveConsumers[c][i].SliderID >= 0
              /\ sliderMoveConsumers[c][i].PercentValue \in 0..100

\* the lines that are neither heartbeat or status, nor a well-formed
\* structured message, nor a frame of readings within 0..1023
MalformedKinds == {"empty", "text", "torn-head", "torn-tail"}

\* C13: a malformed or unrecognized line is discarded: handling a sliders
\* message whose payload is empty, is text or carries a reading above 1023
\* emits no move event and changes no tracker state.
C13_MalformedDiscarded ==
    [][(last'.kind \in MalformedKinds)
        => /\ moveEvents' = <<>>
           /\ lastKnownNumSliders' = lastKnownNumSliders
           /\ currentSliderPercentValues' = currentSliderPercentValues
           /\ \A c \in DOMAIN sliderMoveConsumers :
                 \/ sliderMoveConsumers'[c] = sliderMoveConsumers[c]
                 \/ sliderMoveConsumers'[c] = Tail(sliderMoveConsumers[c])]_vars

-----------------------------------------------------------------------------
\* Legacy lines (checked under SpecTracker)

\* what handling device line l does to the tracker in the present state: the
\* events it emits and the count and values it leaves
Effect(l) ==
    IF RouteOf[l].to = "sliders"
    THEN LET fields == Split(RouteOf[l].data, PIPE)
             r == SliderLoop(fields, 1,
                             ResyncedValues(Len(fields), lastKnownNumSliders,
                                            currentSliderPercentValues),
                             <<>>, InvertSliders, NoiseReductionLevel)
         IN  [events |-> IF r.malformed THEN <<>> ELSE r.events,
              known |-> Len(fields), values |-> r.values]
    ELSE [events |-> <<>>, known |-> lastKnownNumSliders,
          values |-> currentSliderPercentValues]

\* C14: a legacy bare line "v0|...|vN-1" with its CRLF, as read from the link,
\* is handled exactly like the structured sliders message with the same
\* readings: from the same tracker state both emit the same events and leave
\* the same tracker state.
C14_LegacyLikeStructured ==
    \A f \in Frames :
        Effect([kind |-> "legacy", frame |-> f, raw |-> LegacyLine(f)])
            = Effect([kind |-> "sliders", frame |-> f, raw |-> SlidersLine(f)])

-----------------------------------------------------------------------------
\* The health indicator (checked under SpecDecoder)

\* C15: handling the literal line "heartbeat" marks the link healthy, that is
\* the health indicator is normal afterwards, and it emits no move event and
\* changes no tracker state.
C15_HeartbeatMarksHealthy ==
    [][(last'.kind = "heartbeat")
        => /\ trayState' = "normal"
           /\ moveEvents' = <<>>
           /\ lastKnownNumSliders' = lastKnownNumSliders
           /\ currentSliderPercentValues' = currentSliderPercentValues]_vars

-----------------------------------------------------------------------------
\* Delivery to a subscriber that falls behind (checked under SpecBurst)

\* the events of a frame that a channel took: channel after is channel before
\* followed by the first k events
TookFirst(before, after, events) ==
    \E k \in 0..Len(events) : after = before \o SubSeq(events, 1, k)

\* C16: processSliderData never blocks on a subscriber: a line can be handled
\* in every state, a channel never holds more than its 100 slots, and a frame
\* handled while a channel is full leaves that channel as it was and still
\* runs to its end (the tracker takes the frame's count and its events).
C16_NeverBlocks ==
    /\ [](ENABLED HandleBurstLine)
    /\ [](\A c \in DOMAIN sliderMoveConsumers : Len(sliderMoveConsumers[c]) <= ChanCap)
    /\ [][\A c \in DOMAIN sliderMoveConsumers :
            (Len(sliderMoveConsumers[c]) = ChanCap /\ last' # last)
                => /\ sliderMoveConsumers'[c] = sliderMoveConsumers[c]
                   /\ last'.op = "frame"
                   /\ lastKnownNumSliders' # lastKnownNumSliders
                         => Len(moveEvents') = lastKnownNumSliders']_vars

\* a frame of three events was handled while the channel was full: none of
\* them is on the channel
C16_Witness ==
    /\ Len(sliderMoveConsumers[1]) = ChanCap
    /\ last.op = "frame"
    /\ Len(moveEvents) = 3
    /\ sliderMoveConsumers[1][ChanCap] \notin {moveEvents[i] : i \in 1..3}

\* C17: the events of one frame are in strictly ascending slider order and
\* reach a channel in that order at its tail, also when the channel fills up
\* and the rest of the frame is dropped; a subscriber takes events from the
\* head, so it reads them in the order they were sent.
C17_AscendingFifo ==
    /\ [](\A i, j \in 1..Len(moveEvents) :
             i < j => moveEvents[i].SliderID < moveEvents[j].SliderID)
    /\ [][\A c \in DOMAIN sliderMoveConsumers :
            \/ /\ last' = last
               /\ sliderMoveConsumers'[c] \in
                     {sliderMoveConsumers[c], Tail(sliderMoveConsumers[c])}
            \/ /\ last' # last
               /\ TookFirst(sliderMoveConsumers[c], sliderMoveConsumers'[c],
                            moveEvents')]_vars

\* the channel had one slot left for a frame of several events: it took the
\* first and the others were dropped
C17_Witness ==
    /\ Len(sliderMoveConsumers[1]) = ChanCap
    /\ last.op = "frame"
    /\ Len(moveEvents) >= 2
    /\ sliderMoveConsumers[1][ChanCap] = moveEvents[1]
    /\ sliderMoveConsumers[1][ChanCap - 1] # moveEvents[1]

-----------------------------------------------------------------------------
\* Inversion (checked under SpecDecoder)

\* the readings of the protocol line of a kind
ReadingsOf(kind) == (CHOOSE l \in ProtocolLines : l.kind = kind).frame

\* C18: with invert enabled each emitted value is the complement 1 - v of the
\* value v the same reading yields with invert disabled; the first frame
\* "512|1023|0" emits 0.50, 1.00, 0.00 without invert and 0.50, 0.00, 1.00
\* with invert.
C18_InvertIsComplement ==
    /\ (last.op = "frame" /\ Len(ReadingsOf(last.kind)) = lastKnownNumSliders) =>
          \A i \in 1..Len(moveEvents) :
              LET v == NormalizeScalar(ReadingsOf(last.kind)[moveEvents[i].SliderID + 1])
              IN  moveEvents[i].PercentValue = IF InvertSliders THEN 100 - v ELSE v
    /\ (last.op = "frame" /\ last.kind = "scenario" /\ Len(moveEvents) = 3) =>
          moveEvents = IF InvertSliders
                       THEN <<Event(0, 50), Event(1, 0), Event(2, 100)>>
                       ELSE <<Event(0, 50), Event(1, 100), Event(2, 0)>>

\* the scenario frame arrived with invert enabled and another slider count in
\* force, and emitted its three events
C18_Witness ==
    /\ last.op = "frame"
    /\ last.kind = "scenario"
    /\ InvertSliders
    /\ Len(moveEvents) = 3
    /\ currentSliderPercentValues = <<50, 0, 100>>

-----------------------------------------------------------------------------
\* Properties of the serial link (checked under SpecLinkFair)

\* no reader goroutine is left
NoReader == \A r \in Starters : reader[r] = "none"

\* a loop between two calls of Start()
Retrying == {"sleep", "retrying"}

C20_StopEndsReader ==
    (stopCall = "blocked") ~> (stopCall = "returned" /\ ~connected /\ NoReader)

-----------------------------------------------------------------------------
\* Shutdown (checked under SpecShutdownFair)

\* C21: once a stop has been signalled, shutdown runs to completion whether
\* or not the serial link is connected: Deej.stop() gets past serial.Stop(),
\* the session map is released and the process exits.
C21_ShutdownCompletes ==
    (pc["main"] = "stopping") ~> (pc["main"] = "exited" /\ finderReleased)

-----------------------------------------------------------------------------
\* The link's callers of Start() (checked under SpecRenewal)

\* the reconnection loop l of serial.go:310-322 is running: it sleeps or is in
\* its call of Start(), and has not yet left the loop
LoopActive(l) == starter[l] \in {"sleep", "retrying", "opening", "opened"}

\* C22: the reconnection loop never runs concurrently with itself: at no time
\* are two reconnection loops of the SerialIO active.
C22_OneReconnectionLoop ==
    Cardinality({l \in Loops : LoopActive(l)}) <= 1

\* the connection that the call of Start() by p opened is in use: its reader
\* task reads from it, or is about to be started (serial.go:282-301)
Connection(p) == starter[p] = "opened" \/ reader[p] = "reading"

\* C23: at most one serial connection with its reader task is active at any
\* time, under any interleaving of the callers of Start().
C23_OneConnection ==
    Cardinality({p \in Starters : Connection(p)}) <= 1

-----------------------------------------------------------------------------
\* Failed connection attempts (checked under SpecLink)

\* the initial connection goroutine and the reconnection loops
Attempters == 0..MaxLoops

\* C24: a connection attempt, initial or by a reconnection loop, that fails
\* because of a misconfiguration (the port does not exist, or permission is
\* denied) is surfaced to the user through the notifier and is not retried:
\* the attempt that ends otherwise than connected or with a passing error has
\* notified the user, and its caller has given up.
C24_MisconfigurationSurfaced ==
    [][\A p \in Attempters :
          (starter[p] = "opening" /\ starter'[p] \notin {"opening", "opened", "sleep"})
              => (notified' /\ starter'[p] = "off")]_vars

-----------------------------------------------------------------------------
\* Configuration reloads and the session map (checked under SpecRefresh)

\* C25: every configuration reload results in the session map being
\* refreshed: the listener that is told of a reload clears the map (and then
\* enumerates the sessions again); it never leaves the map as it is.
C25_ReloadRefreshes ==
    [][(pc["reload"] = "idle" /\ pc'["reload"] # "idle")
          => pc'["reload"] = "clear"]_vars

-----------------------------------------------------------------------------
\* The merged slider mapping (checked under SpecMerge)

\* the slider indices named by the keys of the two configurations
ConfiguredIndices ==
    {getSliderIdx(k) : k \in DOMAIN userMapping \cup DOMAIN internalMapping}

\* the keys of a configuration that name the slider idx
KeysNaming(mapping, idx) == {k \in DOMAIN mapping : getSliderIdx(k) = idx}

\* the targets written under the keys, one key after the other
RECURSIVE TargetsUnder(_, _)
TargetsUnder(order, mapping) ==
    IF order = <<>> THEN <<>>
    ELSE mapping[Head(order)] \o TargetsUnder(Tail(order), mapping)

NonEmpty(targets) == SelectSeq(targets, LAMBDA t : t # "")

\* the internal targets that are not empty and not literally present yet,
\* neither among the user's targets nor earlier in the internal list
NotYetPresent(internal, user) ==
    LET keep == {i \in DOMAIN internal :
                    /\ internal[i] # ""
                    /\ \A j \in DOMAIN user : user[j] # internal[i]
                    /\ \A j \in 1..(i - 1) : internal[j] # internal[i]}
        F[i \in 0..Len(internal)] ==
            IF i = 0 THEN <<>>
            ELSE IF i \in keep THEN Append(F[i - 1], internal[i]) ELSE F[i - 1]
    IN  F[Len(internal)]

\* C26: in the merged mapping, for every slider index, the targets the user
\* configured come first, in their original order, followed by exactly those
\* internal targets that are not empty and not literally present already, in
\* their original order; no target string is removed or changed by the merge.
C26_UserThenInternal ==
    \A idx \in ConfiguredIndices :
        \E userOrder \in RangeOrders(KeysNaming(userMapping, idx)),
           internalOrder \in RangeOrders(KeysNaming(internalMapping, idx)) :
              LET user == NonEmpty(TargetsUnder(userOrder, userMapping))
                  internal == TargetsUnder(internalOrder, internalMapping)
                  merged == user \o NotYetPresent(internal, user)
              IN  IF merged = <<>>
                  THEN idx \notin DOMAIN resultMap
                  ELSE idx \in DOMAIN resultMap /\ resultMap[idx] = merged

\* C27: for every slider index present in the mapping built by
\* sliderMapFromConfigs, the list of targets is not empty, holds no empty
\* string and holds no string twice.
C27_TargetListsClean ==
    \A idx \in DOMAIN resultMap :
        /\ Len(resultMap[idx]) > 0
        /\ \A i \in DOMAIN resultMap[idx] : resultMap[idx][i] # ""
        /\ \A i, j \in DOMAIN resultMap[idx] :
              i # j => resultMap[idx][i] # resultMap[idx][j]

-----------------------------------------------------------------------------
\* The per-slider decision of an accepted frame (checked under SpecTracker)

\* the step handles a line that is accepted as a frame: the observation says
\* so and no subscriber took an event off its channel
FrameProcessed ==
    /\ last'.op = "frame"
    /\ \A c \in DOMAIN sliderMoveConsumers :
          Len(sliderMoveConsumers'[c]) >= Len(sliderMoveConsumers[c])

\* what slot i holds when the frame's loop comes to it: the stored value, or
\* the sentinel if the frame changed the slider count
SlotBefore(i) ==
    IF Len(last'.frame) = lastKnownNumSliders THEN currentSliderPercentValues[i]
    ELSE Unset

\* C28: for each index i of an accepted frame a move event is emitted if and
\* only if the slot holds the unset sentinel or the new normalized value
\* differs from the stored one by more than the configured noise threshold;
\* on emission the slot is set to the new value, and every other slot keeps
\* its previous value.
C28_EmitIffUnsetOrDifferent ==
    [][FrameProcessed =>
          \A i \in 1..Len(last'.frame) :
              LET new == Scalar(last'.frame[i], InvertSliders)
                  emitted == \E k \in 1..Len(moveEvents') :
                                 moveEvents'[k] = Event(i - 1, new)
                  about == \E k \in 1..Len(moveEvents') :
                                 moveEvents'[k].SliderID = i - 1
              IN  /\ emitted <=>
                        \/ SlotBefore(i) = Unset
                        \/ SignificantlyDifferent(SlotBefore(i), new, NoiseReductionLevel)
                  /\ about => emitted
                  /\ currentSliderPercentValues'[i] =
                        IF emitted THEN new ELSE SlotBefore(i)]_vars

\* a frame was accepted whose first reading is within the noise threshold of
\* the stored value, which is kept, and whose last reading is beyond it and
\* was emitted and stored
C28_Witness ==
    /\ last.op = "frame"
    /\ Len(last.frame) = MaxSliders
    /\ moveEvents = <<Event(MaxSliders - 1, currentSliderPercentValues[MaxSliders])>>
    /\ currentSliderPercentValues[MaxSliders] = Scalar(last.frame[MaxSliders], InvertSliders)
    /\ currentSliderPercentValues[1] # Scalar(last.frame[1], InvertSliders)

-----------------------------------------------------------------------------
\* Lookups during a refresh (checked under SpecVolume)

\* a refresh has cleared the table and has not yet added every session that
\* the backend listed (session_map.go:148-150, 104-109)
MidRefresh ==
    \E p \in Refreshers :
        \/ pc[p] = "enum"
        \/ pc[p] = "add" /\ Len(pending[p]) > 0

\* the slider-move handler looks a key up in the table (session_map.go:208)
Lookup ==
    /\ handler.pc = "get"
    /\ Len(handler.resolvedTargets) > 0
    /\ handler'.resolvedTargets = Tail(handler.resolvedTargets)

\* C29: no lookup by the slider-move handler observes an intermediate state
\* of a refresh: a get() concurrent with refreshSessions sees the complete
\* table of before or of after the refresh, never a cleared or partially
\* re-populated one.
C29_LookupSeesCompleteTable ==
    [][Lookup => ~MidRefresh]_vars

-----------------------------------------------------------------------------
\* Accesses to the slider data (checked under SpecMutex)

\* the step writes lastKnownNumSliders or currentSliderPercentValues
WritesSliderData ==
    \/ lastKnownNumSliders' # lastKnownNumSliders
    \/ currentSliderPercentValues' # currentSliderPercentValues

\* the task that takes the step holds the mutex: it took it before and gives
\* it back at the end of its critical section
ByTheHolder == sliderDataMutex # "free" /\ sliderDataMutex' = "free"

\* C30: every read and write of lastKnownNumSliders and
\* currentSliderPercentValues is made by a task that holds sliderDataMutex,
\* the reset of the slider count on a configuration reload included, so that
\* no two tasks access these fields at the same time.
C30_SliderDataUnderMutex ==
    [][WritesSliderData => ByTheHolder]_vars

-----------------------------------------------------------------------------
\* Configuration reloads and the serial handler (checked under SpecReload and
\* SpecReloadFair)

\* a configuration reload is over: its delayed reset has fired, or the reload
\* started none and nothing of it is still to come
ReloadSettled == last.op \in {"reset", "unheard"} /\ ~resetPending

\* C31: after a configuration reload, once its delay has elapsed, the next
\* slider frame processed emits a move event for every slider of that frame;
\* this holds for every reload, also for those that follow a change of the
\* connection parameters.
C31_ReloadReappliesAll ==
    [][(ReloadSettled /\ FrameProcessed)
          => Ids(moveEvents') = [i \in 1..Len(last'.frame) |-> i - 1]]_vars

\* C32: when a configuration reload changes the port or the baud rate while
\* the link is connected, the serial handler stops the connection and starts
\* a new one, and is then able to process later reloads: the listener that
\* went into Stop() comes back to its channel with the link connected anew.
C32_RenewalCompletes ==
    (starter[Renewer] = "blocked") ~> (starter[Renewer] = "off" /\ connected)

-----------------------------------------------------------------------------
\* A refresh whose enumeration fails (checked under SpecRefresh)

\* the call of GetAllSessions by p returns an error: getAndAddSessions
\* returns it and refreshSessions logs it (session_map.go:97-101, 150-152)
EnumerationFails(p) == pc[p] = "enum" /\ pc'[p] = "done"

\* C33: when GetAllSessions fails during refreshSessions, the refresh returns
\* normally, without a panic, and leaves the session table empty and the
\* unmapped snapshot empty.
C33_FailedEnumerationLeavesEmpty ==
    [][\A p \in Refreshers :
          EnumerationFails(p)
              => /\ ~crashed'
                 /\ m' = <<>>
                 /\ unmappedSessions' = <<>>]_vars

-----------------------------------------------------------------------------
\* SetVolume and released handles (checked under SpecVolume)

\* the goroutines of session_map.go:215-227 whose call of SetVolume is made
\* in this step: each goroutine makes one call and leaves tasks with it (a
\* step of GetAllSessions only renames the released handles)
CallsSetVolume ==
    IF \A p \in Procs : pc[p] = "enum" => pc'[p] = "enum" THEN tasks \ tasks' ELSE {}

\* Release() has been called on the handle (session_map.go:319-325)
Released(h) == h = Stale \/ handles[h].releases > 0

\* C34: SetVolume is never called on a session handle on which Release() has
\* been called, whatever the interleaving of the slider-move handling (the
\* lookup, then the SetVolume goroutines) with refreshSessions and clear
C34_NoSetVolumeAfterRelease ==
    [][\A t \in CallsSetVolume : ~Released(t.session)]_vars

-----------------------------------------------------------------------------
\* Successive moves of one slider (checked under SpecLastWins, where the slider
\* mapping is fixed, so that the goroutines of one session come from the
\* events of one slider)

\* handleSliderMoveEvent has started every goroutine of the event it was
\* called with last
AllSpawned ==
    handler.pc = "resolve" /\ handler.targets = <<>> /\ handler.resolvedTargets = <<>>

\* C35: the last event wins: when several move events of one slider are
\* handled one after another, then once every SetVolume goroutine has ended
\* each matching session has the volume of the last event.  A session has the
\* volume of the last SetVolume call made on it, so the property is that the
\* call after which no goroutine of the session is left carries the value of
\* the last event
C35_LastEventWins ==
    [][\A t \in CallsSetVolume :
          (/\ AllSpawned
           /\ t.session \in found
           /\ \A u \in tasks' : u.session # t.session)
              => t.volume = handler.volume]_vars

-----------------------------------------------------------------------------
\* The order of the line handlers (checked under SpecDispatch)

\* every handleLine goroutine started so far has finished
AllHandled == lineTasks # <<>> /\ \A i \in DOMAIN lineTasks : lineTasks[i].done

\* the line read last
NewestLine == lineTasks[Len(lineTasks)].line

WellFormed(frame) == \A i \in DOMAIN frame : frame[i] <= MaxReading

\* C36: slider frames are applied to the tracker in the order their lines
\* were read: once every handleLine goroutine has finished, the tracker
\* corresponds to the frame read last: the slider count is the number of its
\* readings and, when the frame is well formed, no entry of
\* currentSliderPercentValues is significantly different from its reading
C36_FramesAppliedInReadOrder ==
    AllHandled
        => /\ lastKnownNumSliders = Len(NewestLine.frame)
           /\ WellFormed(NewestLine.frame)
                 => \A i \in DOMAIN NewestLine.frame :
                        ~SignificantlyDifferent(currentSliderPercentValues[i],
                                                Scalar(NewestLine.frame[i], InvertSliders),
                                                NoiseReductionLevel)

-----------------------------------------------------------------------------
\* Concurrent refreshes (checked under SpecRefresh)

\* no call of refreshSessions is under way
NoRefreshUnderWay == \A p \in Procs : pc[p] \in {"idle", "sleep", "running"}

\* how often the handle is held in the table
TimesHeld(h) ==
    Cardinality(UNION {{<<k, i>> : i \in {j \in DOMAIN m[k] : m[k][j] = h}} :
                          k \in DOMAIN m})

\* how often the handle is listed in the unmapped snapshot
TimesUnmapped(h) ==
    Cardinality({i \in DOMAIN unmappedSessions : unmappedSessions[i].id = h})

\* C37: after any set of concurrent refreshSessions calls has completed the
\* session table holds the sessions of one enumeration, each handle once,
\* and the unmapped snapshot lists each of its sessions once; handles of two
\* enumerations are never in the table together
C37_OneEnumerationInTable ==
    /\ \A g, h \in Held : g.owner = h.owner
    /\ NoRefreshUnderWay
          => /\ \A h \in Held : TimesHeld(h) = 1
             /\ \A i \in DOMAIN unmappedSessions :
                   /\ unmappedSessions[i].id \in Held
                   /\ TimesUnmapped(unmappedSessions[i].id) = 1

-----------------------------------------------------------------------------
\* sessionMapped on every configured target (checked under SpecRefresh)

\* getAndAddSessions calls sessionMapped for the next session of its
\* enumeration (session_map.go:104-108)
CallsSessionMapped(p) ==
    pc[p] = "add" /\ Len(pending[p]) > 0 /\ pending'[p] = Tail(pending[p])

\* C38: sessionMapped completes without failure for every configured target
\* string (a target is skipped as special in sessionMapped exactly when
\* resolveTarget treats it as special, so that the first element of a
\* resolution is only taken from a resolution that has one): no call of
\* sessionMapped ends in a panic, whatever the slider mapping
C38_SessionMappedCompletes ==
    [][\A p \in Procs : CallsSessionMapped(p) => ~crashed']_vars

-----------------------------------------------------------------------------
\* Frames discarded as malformed (checked under SpecTracker)

\* processSliderData gives the frame up at its first field (serial.go:527-530)
DiscardsFrame == last'.op = "malformed" /\ moveEvents' = <<>> /\ last'.first > MaxReading

\* C39: a slider frame discarded as malformed (its first field is above 1023)
\* leaves the tracker state unchanged: lastKnownNumSliders and every entry of
\* currentSliderPercentValues are the same after it as before, also when the
\* discarded frame has another number of readings
C39_DiscardedFrameKeepsTracker ==
    [][DiscardsFrame
          => /\ lastKnownNumSliders' = lastKnownNumSliders
             /\ currentSliderPercentValues' = currentSliderPercentValues]_vars

-----------------------------------------------------------------------------
\* Values whose event was dropped (checked under SpecBurst)

\* the events of the frame handled in this step that were not placed on the
\* channel of subscriber c, which was full (serial.go:574-582): a channel
\* takes the events of a frame in order for as long as it has room
DroppedFor(c) ==
    LET placed == Len(sliderMoveConsumers'[c]) - Len(sliderMoveConsumers[c])
    IN  {moveEvents'[k] : k \in (placed + 1)..Len(moveEvents')}

\* C40: the tracker and each subscriber stay consistent despite drops: once a
\* subscriber has drained its queue and the readings have stopped changing,
\* the last event it received for slider i carries
\* currentSliderPercentValues[i].  No event follows while the readings keep
\* their stored values, so the property is that a value whose event was
\* dropped for a full queue is not treated as already delivered: the tracker
\* does not store it as the slider's current value
C40_DroppedValueNotStored ==
    [][FrameProcessed
          => \A c \in DOMAIN sliderMoveConsumers :
                 \A e \in DroppedFor(c) :
                     currentSliderPercentValues'[e.SliderID + 1] # e.PercentValue]_vars

====
